---- MODULE Spec2Model ----
(***************************************************************************)
(* memo-stt: the push-to-talk session orchestrator of src/src/main.rs.     *)
(*                                                                         *)
(* The binary runs in one of two modes, chosen by the INPUT_SOURCE         *)
(* environment variable when main() starts:                                *)
(*   "system"  main() itself: keyboard listener thread, BLE trigger-only   *)
(*             thread, stdin thread, the rx.recv() loop, the cpal capture  *)
(*             callback and one detached thread per transcription job;     *)
(*   "ble"     run_ble_audio_mode(): one cooperative loop that receives    *)
(*             control and audio notifications and reconnects with         *)
(*             backoff, the stdin thread and the transcription threads.    *)
(* Samples are numbered 1, 2, ... in capture order so that a sample can be *)
(* followed from the capture to the job that transcribes it.               *)
(***************************************************************************)
EXTENDS Integers, Sequences, FiniteSets, TLC

\* ---------------------------------------------------------------- bounds
\* most events waiting in the mpsc channel rx
MaxQueue == 2
\* samples captured in one run
MaxSamples == 2
\* reconnection tries made in one run
MaxAttempts == 7
\* samples of the model that make one second of audio
OneSecond == 2
\* samples in one Opus frame (frame_size_samples, 320 in the program)
FrameSamples == 2
\* longest PCM buffer given to encode_buffer
MaxPcm == 3
\* largest byte value, and longest byte sequence given to decode_bundle
MaxByte == 3
MaxBundle == 5
MaxFrames == 2
\* longest text given to strip_periods_from_short_phrases
MaxText == 8
\* longest string outside the names of keys given to parse_hotkey
MaxKeyName == 3
\* longest transcript with question marks, and longest text after a phrase
\* of four words
MaxMarked == 5
MaxTail == 3
\* most names in a list of the vocabulary given to build_prompt
MaxVocab == 2
\* most samples pushed to the performance history
MaxPerf == 12

\* ------------------------------------------------------ program constants
RECONNECT_DELAY_BASE == 2
RECONNECT_DELAY_MAX == 30
PERF_HISTORY_CAP == 10
RESP_SPEECH_START == 1
RESP_SPEECH_END == 2

VARIABLES
    env_input_source,      \* INPUT_SOURCE environment variable read by main()
    foreground,            \* the frontmost application of the desktop
    call,                  \* the last call of a codec or text function: its
                           \* name, its argument and what it returned
    hotkey_trigger,        \* a HotkeyTrigger, its caller and its key
    input_source,          \* Arc<Mutex<String>> written by the stdin thread
    press_enter_after_paste, \* Arc<AtomicBool> written by the stdin thread
    \* keyboard listener (system mode)
    trigger_pressed, control_pressed, lock_toggle_processed,
    rx,                    \* mpsc channel of KeyEvent
    keys_held,             \* keys of the keyboard that are physically down
    sample_rate,           \* config.sample_rate().0 of the default input device
    ble_receiver,          \* the BleAudioReceiver, with the place of its owner
    model_file,            \* the file at default_model_path(), if there is one
    \* orchestrator
    is_recording, is_locked,
    recording_stream,      \* 0 = None, otherwise the identity of the cpal stream
    audio_buffer,
    \* BLE
    trig_pc,               \* BLE trigger-only thread of system mode
    ble_pc,                \* position of run_ble_audio_mode
    periph,                \* BleAudioReceiver.periph is Some
    link,                  \* the GATT link is up and subscribed
    device_up,             \* the device is in range and advertising
    reconnect_attempts,
    last_delay,            \* delay_seconds of the last backoff sleep
    \* recognizer, vocabulary, jobs
    vocabulary,
    vocab_lock,            \* holder of the vocabulary mutex (0 = free)
    engine,                \* holder of the engine mutex (0 = free)
    initial_prompt,        \* SttEngine.initial_prompt
    jobs,                  \* transcription threads, in spawn order
    out,                   \* FINAL: lines and inject_text calls, in order
    perf_history,          \* performance_history: the jobs that pushed a sample
    next_sample,           \* number of the next sample captured
    \* history variables
    captured,              \* samples appended since the session was opened
    tries,                 \* reconnection tries since the last successful connect
    interrupted,           \* samples that were buffered when the link was lost
    activate_ignored,      \* an Activate has arrived while is_recording was true
    last_close,            \* the event that closed the last session, and whether
                           \* the buffer it took was empty
    prompt_setter          \* job whose set_prompt call was the last one

vars == << env_input_source, sample_rate, model_file, ble_receiver, hotkey_trigger, keys_held, press_enter_after_paste, foreground, call, perf_history, input_source, trigger_pressed, control_pressed,
           lock_toggle_processed, rx, is_recording, is_locked, recording_stream,
           audio_buffer, trig_pc, ble_pc, periph, link, device_up,
           reconnect_attempts, last_delay, vocabulary, vocab_lock, engine,
           initial_prompt, jobs, out, next_sample, captured, tries, interrupted,
           activate_ignored, last_close, prompt_setter >>

keyVars == << trigger_pressed, control_pressed, lock_toggle_processed >>
recVars == << is_recording, is_locked, recording_stream, audio_buffer, captured,
              activate_ignored, last_close >>
bleVars == << ble_pc, periph, link, device_up, reconnect_attempts, last_delay,
              tries, interrupted >>
jobVars == << vocab_lock, engine, initial_prompt, jobs, out, prompt_setter,
              perf_history >>

\* ---------------------------------------------------------------- helpers
Min(a, b) == IF a < b THEN a ELSE b

Range(s) == { s[i] : i \in 1..Len(s) }

None == << >>
Some(x) == << x >>

EmptyVocabulary == [apps |-> << >>, commands |-> << >>]

\* payloads of the VOCAB: lines that the tests of the spec send
VocabInputs == { EmptyVocabulary, [apps |-> << "Slack" >>, commands |-> << "send" >>] }

\* an exchange that succeeds whatever the cell holds (a plain store): with it
\* in place of the CAS a second Activate would reopen the session
compare_exchange_always(cur, expected, new) == [ok |-> TRUE, val |-> new]

\* AtomicBool::compare_exchange(expected, new) on a cell holding cur
compare_exchange(cur, expected, new) ==
    [ok |-> cur = expected, val |-> IF cur = expected THEN new ELSE cur]

\* Vec::extend_from_slice / Vec::push in the capture paths; the reversed
\* variant prepends, which would break the capture order of a session
ExtendFromSlice_reversed(buf, data) == data \o buf
ExtendFromSlice(buf, data) == buf \o data

\* a call of a pure function: its name, its argument and, once it has returned,
\* its result
NoCall == [fn |-> "none", arg |-> << >>, res |-> << >>, returned |-> FALSE]

Pending(fn, arg) == [fn |-> fn, arg |-> arg, res |-> << >>, returned |-> FALSE]

Returns(res) == [call EXCEPT !.res = res, !.returned = TRUE]

\* the applications the desktop can show in front; "Unknown" is what
\* get_active_application yields when the probe fails or the host is not macOS
Apps == { "Unknown", "Slack" }

\* app_detection::get_application_context: a probe of the frontmost application
\* at the moment of the call
get_application_context == [app_name |-> foreground, window_title |-> ""]

\* the build_prompt closure
build_prompt(app_name, window_title, vocab) ==
    LET parts ==
          [ context |-> IF app_name # "" /\ app_name # "Unknown"
                        THEN << app_name, window_title >> ELSE << >>,
            apps |-> vocab.apps,
            commands |-> vocab.commands ]
    IN  IF parts.context = << >> /\ parts.apps = << >> /\ parts.commands = << >>
        THEN None ELSE Some(parts)

\* the locals app_name and window_title of a thread that has not probed yet
NoContext == [app_name |-> "", window_title |-> ""]

\* a transcription thread as std::thread::spawn creates it
NewJob(samples) ==
    [ samples |-> samples, pc |-> "spawned", prompt |-> None, text |-> "",
      heard_from |-> 0, session |-> captured, vocab_at_stop |-> vocabulary,
      context |-> NoContext, encoder |-> "none" ]

\* if sample_rate_for_encoding == 16000 { std::thread::spawn(...) } of the
\* StopRecording handler, the spawn without a condition of BLE mode, and no
\* encode thread in the unlock branch of the ToggleLock handler
SpawnsEncoder(by) ==
    \/ by = "SpeechEnd"
    \/ by = "StopRecording" /\ sample_rate = 16000

\* the threads spawned for the samples taken by the event by
NewThreads(samples, by) ==
    [NewJob(samples) EXCEPT !.encoder = IF SpawnsEncoder(by) THEN "spawned" ELSE "none"]

\* HotkeyTrigger::new: not active, an empty channel of TriggerEvent; with it
\* the place of the caller (pc) and the last event of the trigger key (key)
HotkeyTrigger_new ==
    [is_active |-> FALSE, event_rx |-> << >>, pc |-> "idle", key |-> "none"]

\* ------------------------------------------------------------------- Init
\* the sample rates a default input device can have; the encode thread is
\* spawned for the first only
SampleRates == { 16000, 48000 }

\* the state after the setup of main() with an input device of one of rates
\* BleAudioReceiver::new: no peripheral and no characteristic; pc is the place
\* of the code that owns the receiver
BleAudioReceiver_new ==
    [periph |-> FALSE, char_audio_data |-> FALSE, char_control_tx |-> FALSE,
     pc |-> "new"]

InitWith(rates) ==
    /\ sample_rate \in rates
    /\ ble_receiver = BleAudioReceiver_new
    /\ model_file = None
    /\ keys_held = { }
    /\ env_input_source \in { "system", "ble" }
    /\ input_source = env_input_source
    /\ hotkey_trigger = HotkeyTrigger_new
    /\ press_enter_after_paste = FALSE
    /\ trigger_pressed = FALSE
    /\ control_pressed = FALSE
    /\ lock_toggle_processed = FALSE
    /\ rx = << >>
    /\ is_recording = FALSE
    /\ is_locked = FALSE
    /\ recording_stream = 0
    /\ audio_buffer = << >>
    /\ trig_pc = IF env_input_source = "system" THEN "connect" ELSE "none"
    /\ ble_pc = IF env_input_source = "ble" THEN "connect" ELSE "none"
    /\ periph = FALSE
    /\ link = FALSE
    /\ device_up \in BOOLEAN
    /\ reconnect_attempts = 0
    /\ last_delay = 0
    /\ vocabulary = EmptyVocabulary
    /\ vocab_lock = 0
    /\ engine = 0
    /\ initial_prompt = None
    /\ jobs = << >>
    /\ out = << >>
    /\ next_sample = 1
    /\ captured = << >>
    /\ tries = 0
    /\ interrupted = { }
    /\ activate_ignored = FALSE
    /\ foreground = "Unknown"
    /\ perf_history = << >>
    /\ last_close = [by |-> "none", empty |-> TRUE]
    /\ prompt_setter = 0

\* main() returns (and the process ends) when run_ble_audio_mode returns
\* the program on a host whose input device records at 48 kHz
InitProgram == InitWith({ 48000 })

Init == InitProgram /\ call = NoCall

ProcessAlive == ble_pc # "exited"

\* the rdev listener thread is spawned only on the path of main() that did not
\* return through the BLE branch
KeyboardListenerSpawned == env_input_source = "system"

SystemMode == env_input_source = "system" /\ ProcessAlive

\* ------------------------------------------------- keyboard listener thread
\* the keys the listener's match distinguishes: the trigger key of --hotkey
\* and the two Control keys of the third and fourth arm
ControlKeys == { "ControlLeft", "ControlRight" }

\* tx_keyboard.send(ev)
Send(ev) == rx' = Append(rx, ev)

\* EventType::KeyPress(trigger key), auto-repeat included
KeyPressTrigger ==
    /\ SystemMode
    /\ Len(rx) < MaxQueue
    /\ keys_held' = keys_held \cup { "Trigger" }
    /\ trigger_pressed' = TRUE
    /\ IF control_pressed
       THEN /\ lock_toggle_processed' = TRUE
            /\ IF ~lock_toggle_processed THEN Send("ToggleLock") ELSE UNCHANGED rx
       ELSE /\ Send("StartRecording")
            /\ UNCHANGED lock_toggle_processed
    /\ UNCHANGED << call, env_input_source, sample_rate, model_file, ble_receiver, hotkey_trigger, press_enter_after_paste, foreground, input_source, control_pressed, recVars,
                    trig_pc, bleVars, vocabulary, jobVars, next_sample >>

\* EventType::KeyRelease(trigger key)
KeyReleaseTrigger ==
    /\ SystemMode
    /\ "Trigger" \in keys_held
    /\ Len(rx) < MaxQueue
    /\ keys_held' = keys_held \ { "Trigger" }
    /\ trigger_pressed' = FALSE
    /\ lock_toggle_processed' = FALSE
    /\ IF ~is_locked THEN Send("StopRecording") ELSE UNCHANGED rx
    /\ UNCHANGED << call, env_input_source, sample_rate, model_file, ble_receiver, hotkey_trigger, press_enter_after_paste, foreground, input_source, control_pressed, recVars,
                    trig_pc, bleVars, vocabulary, jobVars, next_sample >>

\* EventType::KeyPress(ControlLeft) | EventType::KeyPress(ControlRight) for
\* the Control key k, auto-repeat included
KeyPressControlKey(k) ==
    /\ SystemMode
    /\ Len(rx) < MaxQueue
    /\ keys_held' = keys_held \cup { k }
    /\ control_pressed' = TRUE
    /\ IF trigger_pressed
       THEN /\ lock_toggle_processed' = TRUE
            /\ IF ~lock_toggle_processed THEN Send("ToggleLock") ELSE UNCHANGED rx
       ELSE UNCHANGED << lock_toggle_processed, rx >>
    /\ UNCHANGED << call, env_input_source, sample_rate, model_file, ble_receiver, hotkey_trigger, press_enter_after_paste, foreground, input_source, trigger_pressed, recVars,
                    trig_pc, bleVars, vocabulary, jobVars, next_sample >>

\* EventType::KeyRelease(ControlLeft) | EventType::KeyRelease(ControlRight)
\* for the Control key k
KeyReleaseControlKey(k) ==
    /\ SystemMode
    /\ k \in keys_held
    /\ keys_held' = keys_held \ { k }
    /\ control_pressed' = FALSE
    /\ lock_toggle_processed' = FALSE
    /\ UNCHANGED << call, env_input_source, sample_rate, model_file, ble_receiver, hotkey_trigger, press_enter_after_paste, foreground, input_source, trigger_pressed, rx, recVars,
                    trig_pc, bleVars, vocabulary, jobVars, next_sample >>

\* the user who has one Control key under the hand
KeyPressControl == KeyPressControlKey("ControlLeft")

KeyReleaseControl == KeyReleaseControlKey("ControlLeft")

\* the other Control key of the keyboard
KeyPressControlRight == KeyPressControlKey("ControlRight")

KeyReleaseControlRight == KeyReleaseControlKey("ControlRight")

\* ------------------------------------------------ capture stream (cpal)
\* outcomes of the match on sample_format() and of build_input_stream
BuildResults == { "ok", "err", "unsupported" }

\* the body run after is_recording went false -> true: clear the buffer, build
\* the input stream and store it, or undo is_recording when the build fails
OpenCapture(res) ==
    /\ audio_buffer' = << >>
    /\ captured' = << >>
    /\ IF res = "ok"
       THEN /\ recording_stream' = (CHOOSE id \in { 1, 2 } : id # recording_stream)
            /\ is_recording' = TRUE
       ELSE /\ recording_stream' = recording_stream
            /\ is_recording' = (res = "unsupported")

\* if !samples.is_empty(): whether the taken samples get a transcription
\* thread; the always and never variants would spawn one for an empty buffer,
\* or none at all
SpawnsJob_always(samples) == TRUE
SpawnsJob_never(samples) == FALSE
SpawnsJob(samples) == samples # << >>

\* the body run after is_recording went true -> false, by the event by: drop the
\* stream, take the buffer and spawn the transcription thread when samples
\* were captured
CloseCapture(by) ==
    /\ is_recording' = FALSE
    /\ recording_stream' = 0
    /\ audio_buffer' = << >>
    /\ jobs' = IF SpawnsJob(audio_buffer) THEN Append(jobs, NewThreads(audio_buffer, by))
                ELSE jobs
    /\ last_close' = [by |-> by, empty |-> audio_buffer = << >>]
    /\ UNCHANGED captured

\* the data callback of the input stream, called with the samples of data
Capture(data) ==
    /\ SystemMode
    /\ recording_stream # 0
    /\ next_sample <= MaxSamples
    /\ audio_buffer' = ExtendFromSlice(audio_buffer, data)
    /\ captured' = IF is_recording THEN captured \o data ELSE captured
    /\ next_sample' = next_sample + 1
    /\ UNCHANGED << call, env_input_source, sample_rate, model_file, ble_receiver, hotkey_trigger, keys_held, press_enter_after_paste, foreground, input_source, keyVars, rx, is_recording,
                    is_locked, recording_stream, activate_ignored, last_close,
                    trig_pc, bleVars, vocabulary, jobVars >>

\* a callback that delivers one sample
CaptureCallback == Capture(<< next_sample >>)

\* a callback that delivers a second of audio in one slice
CaptureCallbackSecond == Capture([i \in 1..OneSecond |-> next_sample])

\* ------------------------------------------------- orchestrator: rx.recv()
HandleStartRecording ==
    /\ SystemMode
    /\ rx # << >> /\ Head(rx) = "StartRecording"
    /\ rx' = Tail(rx)
    /\ IF compare_exchange(is_recording, FALSE, TRUE).ok
       THEN \E res \in BuildResults : OpenCapture(res)
       ELSE UNCHANGED << is_recording, recording_stream, audio_buffer, captured >>
    /\ activate_ignored' = (activate_ignored \/ is_recording)
    /\ UNCHANGED << call, env_input_source, sample_rate, model_file, ble_receiver, hotkey_trigger, keys_held, press_enter_after_paste, foreground, input_source, keyVars, is_locked, last_close,
                    trig_pc, bleVars, vocabulary, jobVars, next_sample >>

HandleStopRecording ==
    /\ SystemMode
    /\ rx # << >> /\ Head(rx) = "StopRecording"
    /\ rx' = Tail(rx)
    /\ IF compare_exchange(is_recording, TRUE, FALSE).ok
       THEN CloseCapture("StopRecording")
       ELSE UNCHANGED << is_recording, recording_stream, audio_buffer, captured, jobs,
                         last_close >>
    /\ UNCHANGED << call, env_input_source, sample_rate, model_file, ble_receiver, hotkey_trigger, keys_held, press_enter_after_paste, foreground, input_source, keyVars, is_locked,
                    activate_ignored, trig_pc, bleVars, vocabulary, vocab_lock,
                    engine, initial_prompt, out, prompt_setter, next_sample, perf_history >>

\* now_locked = !was_locked; the stuck variant would never unlock
NowLocked_stuck(was_locked) == TRUE
NowLocked(was_locked) == ~was_locked

HandleToggleLock ==
    /\ SystemMode
    /\ rx # << >> /\ Head(rx) = "ToggleLock"
    /\ rx' = Tail(rx)
    /\ is_locked' = NowLocked(is_locked)
    /\ IF NowLocked(is_locked)
       THEN \* locking: make sure recording is on
            /\ IF ~is_recording /\ compare_exchange(is_recording, FALSE, TRUE).ok
               THEN \E res \in BuildResults : OpenCapture(res)
               ELSE UNCHANGED << is_recording, recording_stream, audio_buffer, captured >>
            /\ UNCHANGED << jobs, last_close >>
       ELSE \* unlocking: stop recording
            IF is_recording /\ compare_exchange(is_recording, TRUE, FALSE).ok
            THEN CloseCapture("ToggleLock")
            ELSE UNCHANGED << is_recording, recording_stream, audio_buffer, captured, jobs,
                              last_close >>
    /\ UNCHANGED << call, env_input_source, sample_rate, model_file, ble_receiver, hotkey_trigger, keys_held, press_enter_after_paste, foreground, input_source, keyVars, activate_ignored,
                    trig_pc, bleVars, vocabulary, vocab_lock, engine,
                    initial_prompt, out, prompt_setter, next_sample, perf_history >>

\* ------------------------------------------------------- BLE notifications
\* a ValueNotification: the characteristic it comes from and its payload of no
\* byte or one byte
Notifications ==
    [uuid : { "audio_data", "control_tx", "other" },
     value : { << >> } \cup { << b >> : b \in 0..MaxByte }]

NotificationAudio(value) == [kind |-> "Audio", value |-> value]
NotificationControl(code) == [kind |-> "Control", value |-> << code >>]
NotificationNone == [kind |-> "None", value |-> << >>]

\* BleAudioReceiver.char_audio_data is set by connect and never by
\* connect_trigger_only
char_audio_data == env_input_source = "ble"

\* notification.uuid == char_control.uuid; the other variant takes the codes
\* from every characteristic
FromControlTx_anyCharacteristic(notification) == TRUE
FromControlTx(notification) == notification.uuid = "control_tx"

\* BleAudioReceiver::process_notification
process_notification(notification) ==
    IF char_audio_data /\ notification.uuid = "audio_data"
    THEN NotificationAudio(notification.value)
    ELSE IF /\ FromControlTx(notification)
            /\ notification.value # << >>
            /\ notification.value[1] \in { RESP_SPEECH_START, RESP_SPEECH_END }
         THEN NotificationControl(notification.value[1])
         ELSE NotificationNone

\* the notification that the loop has just taken from the stream becomes the
\* last call of process_notification
Notified(notification) ==
    call' = [fn |-> "process_notification", arg |-> notification,
             res |-> process_notification(notification), returned |-> TRUE]

\* ---------------------------------------- BLE trigger-only thread (system mode)
\* ble_receiver.connect_trigger_only, then ble_receiver.notifications
TrigConnect ==
    /\ SystemMode
    /\ trig_pc = "connect"
    /\ \E ok \in (IF device_up THEN BOOLEAN ELSE { FALSE }) :
          /\ trig_pc' = IF ok THEN "streaming" ELSE "failed"
          /\ periph' = ok
          /\ link' = ok
    /\ UNCHANGED << call, env_input_source, sample_rate, model_file, ble_receiver, hotkey_trigger, keys_held, press_enter_after_paste, foreground, input_source, keyVars, rx, recVars, ble_pc,
                    device_up, reconnect_attempts, last_delay, tries, interrupted,
                    vocabulary, jobVars, next_sample >>

\* NotificationResult::Control(0x01)
TrigSpeechStart ==
    /\ SystemMode
    /\ trig_pc = "streaming" /\ link
    /\ Len(rx) < MaxQueue
    /\ \E n \in Notifications :
          /\ process_notification(n) = NotificationControl(RESP_SPEECH_START)
          /\ Notified(n)
    /\ Send("StartRecording")
    /\ UNCHANGED << env_input_source, sample_rate, model_file, ble_receiver, hotkey_trigger, keys_held, press_enter_after_paste, foreground, input_source, keyVars, recVars, trig_pc,
                    bleVars, vocabulary, jobVars, next_sample >>

\* NotificationResult::Control(0x02)
TrigSpeechEnd ==
    /\ SystemMode
    /\ trig_pc = "streaming" /\ link
    /\ Len(rx) < MaxQueue
    /\ \E n \in Notifications :
          /\ process_notification(n) = NotificationControl(RESP_SPEECH_END)
          /\ Notified(n)
    /\ IF ~is_locked THEN Send("StopRecording") ELSE UNCHANGED rx
    /\ UNCHANGED << env_input_source, sample_rate, model_file, ble_receiver, hotkey_trigger, keys_held, press_enter_after_paste, foreground, input_source, keyVars, recVars, trig_pc,
                    bleVars, vocabulary, jobVars, next_sample >>

\* every other NotificationResult: _ => {}
TrigOtherNotification ==
    /\ SystemMode
    /\ trig_pc = "streaming" /\ link
    /\ \E n \in Notifications :
          /\ process_notification(n) \notin
                { NotificationControl(RESP_SPEECH_START), NotificationControl(RESP_SPEECH_END) }
          /\ Notified(n)
    /\ UNCHANGED << env_input_source, sample_rate, model_file, ble_receiver, hotkey_trigger, keys_held, press_enter_after_paste, foreground, input_source, keyVars, rx, recVars, trig_pc,
                    bleVars, vocabulary, jobVars, next_sample >>

\* notifications.next() returns None: the thread leaves its loop and ends
TrigStreamEnded ==
    /\ SystemMode
    /\ trig_pc = "streaming" /\ ~link
    /\ trig_pc' = "ended"
    /\ UNCHANGED << call, env_input_source, sample_rate, model_file, ble_receiver, hotkey_trigger, keys_held, press_enter_after_paste, foreground, input_source, keyVars, rx, recVars, ble_pc,
                    periph, link, device_up, reconnect_attempts, last_delay, tries,
                    interrupted, vocabulary, jobVars, next_sample >>

\* --------------------------------------------------------- the BLE device
\* the device goes out of range or is switched off: the link is lost
DeviceDrop ==
    /\ ProcessAlive
    /\ device_up
    /\ device_up' = FALSE
    /\ link' = FALSE
    /\ interrupted' = IF link /\ is_recording /\ env_input_source = "ble"
                      THEN interrupted \cup Range(audio_buffer) ELSE interrupted
    /\ UNCHANGED << call, env_input_source, sample_rate, model_file, ble_receiver, hotkey_trigger, keys_held, press_enter_after_paste, foreground, input_source, keyVars, rx, recVars, trig_pc,
                    ble_pc, periph, reconnect_attempts, last_delay, tries,
                    vocabulary, jobVars, next_sample >>

\* the device is available again
DeviceReturn ==
    /\ ProcessAlive
    /\ ~device_up
    /\ device_up' = TRUE
    /\ UNCHANGED << call, env_input_source, sample_rate, model_file, ble_receiver, hotkey_trigger, keys_held, press_enter_after_paste, foreground, input_source, keyVars, rx, recVars, trig_pc,
                    ble_pc, periph, link, reconnect_attempts, last_delay, tries,
                    interrupted, vocabulary, jobVars, next_sample >>

\* the user brings another application to the front
ForegroundChange ==
    /\ ProcessAlive
    /\ \E app \in Apps \ { foreground } : foreground' = app
    /\ UNCHANGED << call, env_input_source, sample_rate, model_file, ble_receiver, hotkey_trigger, keys_held, press_enter_after_paste, keyVars, input_source, rx, recVars, trig_pc,
                    bleVars, vocabulary, jobVars, next_sample >>

\* ------------------------------------------------------------ stdin thread
\* VOCAB:<json>: lock the vocabulary and replace both lists
StdinVocab ==
    /\ ProcessAlive
    /\ vocab_lock = 0
    /\ \E v \in VocabInputs : vocabulary' = v
    /\ UNCHANGED << call, env_input_source, sample_rate, model_file, ble_receiver, hotkey_trigger, keys_held, press_enter_after_paste, foreground, input_source, keyVars, rx, recVars, trig_pc,
                    bleVars, jobVars, next_sample >>

\* a VOCAB: line that arrives while no session is recording
StdinVocabBetweenSessions == ~is_recording /\ StdinVocab

\* INPUT_SOURCE:system | INPUT_SOURCE:ble
StdinInputSource ==
    /\ ProcessAlive
    /\ \E s \in { "system", "ble" } : input_source' = s
    /\ UNCHANGED << call, env_input_source, sample_rate, model_file, ble_receiver, hotkey_trigger, keys_held, press_enter_after_paste, foreground, keyVars, rx, recVars, trig_pc, bleVars,
                    vocabulary, jobVars, next_sample >>

\* ----------------------------------------------------- transcription thread
\* results of SttEngine::transcribe on audio of a second or more: Ok(text),
\* Ok("") and Err (inference failed)
TranscribeResults == { "text", "empty", "error" }

\* SttEngine::transcribe: Ok("") at once for no samples, the audio-too-short
\* error for less than a second, inference otherwise; the noMinimum variant
\* would run inference on any length
TranscribeOutcomes_noMinimum(samples) == TranscribeResults
TranscribeOutcomes(samples) ==
    IF samples = << >> THEN { "empty" }
    ELSE IF Len(samples) < OneSecond THEN { "too_short" }
    ELSE TranscribeResults

\* history.push_back(..); if history.len() > 10 { history.pop_front(); }
\* history.push_back and the pop_front of a full history; the other variant
\* drops the newest sample instead of the oldest
PushPerf_popBack(history, j) ==
    IF Len(history) + 1 > PERF_HISTORY_CAP THEN history ELSE Append(history, j)

PushPerf(history, j) ==
    LET pushed == Append(history, j)
    IN  IF Len(pushed) > PERF_HISTORY_CAP THEN Tail(pushed) ELSE pushed

\* whether the job calls eng.set_prompt for the prompt it built (always); the
\* onlySome variant would skip the call for None and leave a stale prompt
CallsSetPrompt_onlySome(prompt) == prompt # None
CallsSetPrompt(prompt) == TRUE

\* where the thread goes after transcribe returned Ok(text); the noFinal
\* variant would inject without the FINAL: line
PcAfterTranscribe_noFinal(text) == IF text = "empty" THEN "done" ELSE "inject"
PcAfterTranscribe(text) == IF text = "empty" THEN "done" ELSE "final"

\* the thread at pc; its locals prompt and vocab are gone once it has ended
AtPc(job, pc) ==
    IF pc = "done"
    THEN [job EXCEPT !.pc = pc, !.prompt = None, !.vocab_at_stop = EmptyVocabulary,
                     !.context = NoContext]
    ELSE [job EXCEPT !.pc = pc]

\* the guards eng and vocab are dropped when the closure returns; the
\* keepsEngine variant is a thread that ends without unlocking the engine
ReleaseAtEnd_keepsEngine(j, pc) ==
    /\ engine' = engine
    /\ vocab_lock' = IF pc = "done" /\ vocab_lock = j THEN 0 ELSE vocab_lock

\* the variant of a thread that ends without unlocking the vocabulary
ReleaseAtEnd_keepsVocabulary(j, pc) ==
    /\ engine' = IF pc = "done" /\ engine = j THEN 0 ELSE engine
    /\ vocab_lock' = vocab_lock

\* the variant of a thread that drops both guards as soon as transcribe has
\* returned
ReleaseAtEnd_afterTranscribe(j, pc) ==
    /\ engine' = IF pc \in { "final", "done" } /\ engine = j THEN 0 ELSE engine
    /\ vocab_lock' = IF pc \in { "final", "done" } /\ vocab_lock = j THEN 0 ELSE vocab_lock

ReleaseAtEnd(j, pc) ==
    /\ engine' = IF pc = "done" /\ engine = j THEN 0 ELSE engine
    /\ vocab_lock' = IF pc = "done" /\ vocab_lock = j THEN 0 ELSE vocab_lock

\* let mut eng = engine_for_thread.lock().unwrap()
JobLockEngine(j) ==
    /\ ProcessAlive
    /\ jobs[j].pc = "spawned"
    /\ engine = 0
    /\ engine' = j
    /\ jobs' = [jobs EXCEPT ![j].pc = "locked"]
    /\ UNCHANGED << call, env_input_source, sample_rate, model_file, ble_receiver, hotkey_trigger, keys_held, press_enter_after_paste, foreground, input_source, keyVars, rx, recVars, trig_pc,
                    bleVars, vocabulary, vocab_lock, initial_prompt, out,
                    prompt_setter, next_sample, perf_history >>

\* get_application_context, vocabulary.lock(), build_prompt, eng.set_prompt
JobSetPrompt(j) ==
    /\ ProcessAlive
    /\ jobs[j].pc = "locked"
    /\ vocab_lock = 0
    /\ vocab_lock' = j
    /\ LET ctx == get_application_context
           prompt == build_prompt(ctx.app_name, ctx.window_title, vocabulary)
       IN  /\ jobs' = [jobs EXCEPT ![j].pc = "prompted", ![j].prompt = prompt,
                                   ![j].context = ctx]
           /\ IF CallsSetPrompt(prompt)
              THEN initial_prompt' = prompt /\ prompt_setter' = j
              ELSE UNCHANGED << initial_prompt, prompt_setter >>
    /\ UNCHANGED << call, env_input_source, sample_rate, model_file, ble_receiver, hotkey_trigger, keys_held, press_enter_after_paste, foreground, input_source, keyVars, rx, recVars, trig_pc,
                    bleVars, vocabulary, engine, out, next_sample, perf_history >>

\* eng.transcribe(&samples) and the match on its result
JobTranscribe(j) ==
    /\ ProcessAlive
    /\ jobs[j].pc = "prompted"
    /\ \E res \in TranscribeOutcomes(jobs[j].samples) :
          LET failed == res \in { "error", "too_short" }
              pc == IF failed THEN "done" ELSE PcAfterTranscribe(res)
          IN  /\ jobs' = [jobs EXCEPT ![j] = AtPc([@ EXCEPT !.text = res,
                                                     !.heard_from = prompt_setter], pc)]
              /\ perf_history' = IF failed THEN perf_history
                                 ELSE PushPerf(perf_history, j)
              /\ ReleaseAtEnd(j, pc)
    /\ UNCHANGED << call, env_input_source, sample_rate, model_file, ble_receiver, hotkey_trigger, keys_held, press_enter_after_paste, foreground, input_source, keyVars, rx, recVars, trig_pc,
                    bleVars, vocabulary, initial_prompt, out, prompt_setter,
                    next_sample >>

\* the update of the performance history by the Ok branch of one more
\* transcription thread, under the mutex of the history; every sample that
\* was ever pushed is kept as the argument of the call
PerfRecord ==
    /\ ProcessAlive
    /\ call.fn \in { "none", "perf" }
    /\ Len(call.arg) < MaxPerf
    /\ \E audio_duration \in { 1, 2 } :
          /\ perf_history' = PushPerf(perf_history, audio_duration)
          /\ call' = [fn |-> "perf", arg |-> Append(call.arg, audio_duration),
                      res |-> << >>, returned |-> TRUE]
    /\ UNCHANGED << env_input_source, sample_rate, model_file, ble_receiver, hotkey_trigger, keys_held, press_enter_after_paste, foreground, input_source,
                    keyVars, rx, recVars, trig_pc, bleVars, vocabulary, vocab_lock, engine,
                    initial_prompt, jobs, out, prompt_setter, next_sample >>

\* println!("FINAL: {}", json_output)
JobFinal(j) ==
    /\ ProcessAlive
    /\ jobs[j].pc = "final"
    /\ out' = Append(out, [line |-> "FINAL", job |-> j, ok |-> TRUE,
                           app |-> get_application_context.app_name])
    /\ jobs' = [jobs EXCEPT ![j].pc = "inject"]
    /\ UNCHANGED << call, env_input_source, sample_rate, model_file, ble_receiver, hotkey_trigger, keys_held, press_enter_after_paste, foreground, input_source, keyVars, rx, recVars, trig_pc,
                    bleVars, vocabulary, vocab_lock, engine, initial_prompt,
                    prompt_setter, next_sample, perf_history >>

\* inject_text(&processed_text, press_enter), Ok or Err, then the thread ends
JobInject(j) ==
    /\ ProcessAlive
    /\ jobs[j].pc = "inject"
    /\ \E ok \in BOOLEAN :
          out' = Append(out, [line |-> "INJECT", job |-> j, ok |-> ok, app |-> ""])
    /\ jobs' = [jobs EXCEPT ![j] = AtPc(@, "done")]
    /\ ReleaseAtEnd(j, "done")
    /\ UNCHANGED << call, env_input_source, sample_rate, model_file, ble_receiver, hotkey_trigger, keys_held, press_enter_after_paste, foreground, input_source, keyVars, rx, recVars, trig_pc,
                    bleVars, vocabulary, initial_prompt, prompt_setter, next_sample, perf_history >>

\* the next step of the transcription thread j, whichever it is
JobRun(j) ==
    /\ j \in 1..Len(jobs)
    /\ \/ JobLockEngine(j)
       \/ JobSetPrompt(j)
       \/ JobTranscribe(j)
       \/ JobFinal(j)
       \/ JobInject(j)

\* a step of one of the detached transcription threads
JobStep == \E j \in 1..Len(jobs) : JobRun(j)

\* ------------------------------------------------------ run_ble_audio_mode
BleMode == env_input_source = "ble" /\ ProcessAlive

\* outcomes of BleAudioReceiver::connect: Ok needs the device in range
ConnectResults == IF device_up THEN BOOLEAN ELSE { FALSE }

\* BleAudioReceiver::disconnect: periph is cleared unless periph.disconnect()
\* fails, which it can do once the link is lost
DisconnectOutcomes ==
    IF ~periph THEN { [periph |-> FALSE, link |-> link] }
    ELSE IF link THEN { [periph |-> FALSE, link |-> FALSE] }
    ELSE { [periph |-> FALSE, link |-> FALSE], [periph |-> TRUE, link |-> FALSE] }

\* delay_seconds of both reconnection paths; the uncapped variant leaves out
\* the min with RECONNECT_DELAY_MAX
ReconnectDelay_uncapped(attempts) == RECONNECT_DELAY_BASE * 2^Min(attempts, 4)
ReconnectDelay(attempts) ==
    Min(RECONNECT_DELAY_BASE * 2^Min(attempts, 4), RECONNECT_DELAY_MAX)

\* reconnect_attempts after connect returned: reset on Ok
AttemptsAfterConnect(ok, attempts) == IF ok THEN 0 ELSE attempts

\* disconnect, compute the delay, count the attempt, go to sleep
StartBackoff(sleep_pc) ==
    /\ reconnect_attempts < MaxAttempts
    /\ \E d \in DisconnectOutcomes : periph' = d.periph /\ link' = d.link
    /\ last_delay' = ReconnectDelay(reconnect_attempts)
    /\ reconnect_attempts' = reconnect_attempts + 1
    /\ tries' = tries + 1
    /\ ble_pc' = sleep_pc

\* ble_receiver.connect after the sleep
FinishBackoff ==
    \E ok \in ConnectResults :
       /\ periph' = (ok \/ periph)
       /\ link' = ok
       /\ reconnect_attempts' = AttemptsAfterConnect(ok, reconnect_attempts)
       /\ tries' = IF ok THEN 0 ELSE tries
       /\ ble_pc' = "outer"

\* the initial ble_receiver.connect; an Err makes run_ble_audio_mode return
BleConnect ==
    /\ BleMode
    /\ ble_pc = "connect"
    /\ \E ok \in ConnectResults :
          /\ periph' = ok
          /\ link' = ok
          /\ ble_pc' = IF ok THEN "outer" ELSE "exited"
    /\ UNCHANGED << call, env_input_source, sample_rate, model_file, ble_receiver, hotkey_trigger, keys_held, press_enter_after_paste, foreground, input_source, keyVars, rx, recVars, trig_pc,
                    device_up, reconnect_attempts, last_delay, tries, interrupted,
                    vocabulary, jobVars, next_sample >>

\* top of the outer loop: input source changed, leave and disconnect
BleOuterExit ==
    /\ BleMode
    /\ ble_pc = "outer"
    /\ input_source # "ble"
    /\ \E d \in DisconnectOutcomes : periph' = d.periph /\ link' = d.link
    /\ ble_pc' = "exited"
    /\ UNCHANGED << call, env_input_source, sample_rate, model_file, ble_receiver, hotkey_trigger, keys_held, press_enter_after_paste, foreground, input_source, keyVars, rx, recVars, trig_pc,
                    device_up, reconnect_attempts, last_delay, tries, interrupted,
                    vocabulary, jobVars, next_sample >>

\* ble_receiver.notifications() returned a stream
BleGetStream ==
    /\ BleMode
    /\ ble_pc = "outer"
    /\ input_source = "ble"
    /\ periph
    /\ ble_pc' = "inner"
    /\ UNCHANGED << call, env_input_source, sample_rate, model_file, ble_receiver, hotkey_trigger, keys_held, press_enter_after_paste, foreground, input_source, keyVars, rx, recVars, trig_pc,
                    periph, link, device_up, reconnect_attempts, last_delay, tries,
                    interrupted, vocabulary, jobVars, next_sample >>

\* ble_receiver.notifications() failed: attempt_reconnect up to its sleep
BleGetStreamFailed ==
    /\ BleMode
    /\ ble_pc = "outer"
    /\ input_source = "ble"
    /\ ~periph \/ ~link
    /\ StartBackoff("sleepA")
    /\ UNCHANGED << call, env_input_source, sample_rate, model_file, ble_receiver, hotkey_trigger, keys_held, press_enter_after_paste, foreground, input_source, keyVars, rx, recVars, trig_pc,
                    device_up, interrupted, vocabulary, jobVars, next_sample >>

\* attempt_reconnect after its sleep
BleReconnectA ==
    /\ BleMode
    /\ ble_pc = "sleepA"
    /\ FinishBackoff
    /\ UNCHANGED << call, env_input_source, sample_rate, model_file, ble_receiver, hotkey_trigger, keys_held, press_enter_after_paste, foreground, input_source, keyVars, rx, recVars, trig_pc,
                    device_up, last_delay, interrupted, vocabulary, jobVars,
                    next_sample >>

\* top of the inner loop: input source changed, return Ok(())
BleInnerExit ==
    /\ BleMode
    /\ ble_pc = "inner"
    /\ input_source # "ble"
    /\ ble_pc' = "exited"
    /\ UNCHANGED << call, env_input_source, sample_rate, model_file, ble_receiver, hotkey_trigger, keys_held, press_enter_after_paste, foreground, input_source, keyVars, rx, recVars, trig_pc,
                    periph, link, device_up, reconnect_attempts, last_delay, tries,
                    interrupted, vocabulary, jobVars, next_sample >>

InnerLoop == BleMode /\ ble_pc = "inner" /\ input_source = "ble"

\* check_connection_health() returned false: break, backoff
BleHealthCheckFailed ==
    /\ InnerLoop
    /\ ~link
    /\ StartBackoff("sleepB")
    /\ UNCHANGED << call, env_input_source, sample_rate, model_file, ble_receiver, hotkey_trigger, keys_held, press_enter_after_paste, foreground, input_source, keyVars, rx, recVars, trig_pc,
                    device_up, interrupted, vocabulary, jobVars, next_sample >>

\* notifications.next() returned None: break, backoff
BleStreamEnded ==
    /\ InnerLoop
    /\ ~link
    /\ StartBackoff("sleepB")
    /\ UNCHANGED << call, env_input_source, sample_rate, model_file, ble_receiver, hotkey_trigger, keys_held, press_enter_after_paste, foreground, input_source, keyVars, rx, recVars, trig_pc,
                    device_up, interrupted, vocabulary, jobVars, next_sample >>

\* the connect that follows the sleep of the inner-loop break
BleReconnectB ==
    /\ BleMode
    /\ ble_pc = "sleepB"
    /\ FinishBackoff
    /\ UNCHANGED << call, env_input_source, sample_rate, model_file, ble_receiver, hotkey_trigger, keys_held, press_enter_after_paste, foreground, input_source, keyVars, rx, recVars, trig_pc,
                    device_up, last_delay, interrupted, vocabulary, jobVars,
                    next_sample >>

\* NotificationResult::Control(0x01)
BleSpeechStart ==
    /\ InnerLoop
    /\ link
    /\ \E n \in Notifications :
          /\ process_notification(n) = NotificationControl(RESP_SPEECH_START)
          /\ Notified(n)
    /\ IF compare_exchange(is_recording, FALSE, TRUE).ok
       THEN /\ is_recording' = TRUE
            /\ audio_buffer' = << >>
            /\ captured' = << >>
       ELSE UNCHANGED << is_recording, audio_buffer, captured >>
    /\ activate_ignored' = (activate_ignored \/ is_recording)
    /\ UNCHANGED << env_input_source, sample_rate, model_file, ble_receiver, hotkey_trigger, keys_held, press_enter_after_paste, foreground, input_source, keyVars, rx, is_locked,
                    recording_stream, last_close, trig_pc, bleVars, vocabulary, jobVars,
                    next_sample >>

\* NotificationResult::Control(0x02)
BleSpeechEnd ==
    /\ InnerLoop
    /\ link
    /\ \E n \in Notifications :
          /\ process_notification(n) = NotificationControl(RESP_SPEECH_END)
          /\ Notified(n)
    /\ IF compare_exchange(is_recording, TRUE, FALSE).ok
       THEN CloseCapture("SpeechEnd")
       ELSE UNCHANGED << is_recording, recording_stream, audio_buffer, captured, jobs,
                         last_close >>
    /\ UNCHANGED << env_input_source, sample_rate, model_file, ble_receiver, hotkey_trigger, keys_held, press_enter_after_paste, foreground, input_source, keyVars, rx, is_locked,
                    activate_ignored, trig_pc, bleVars, vocabulary, vocab_lock,
                    engine, initial_prompt, out, prompt_setter, next_sample, perf_history >>

\* NotificationResult::Control(_) and NotificationResult::None
BleOtherNotification ==
    /\ InnerLoop
    /\ link
    /\ \E n \in Notifications :
          /\ process_notification(n).kind # "Audio"
          /\ process_notification(n) \notin
                { NotificationControl(RESP_SPEECH_START), NotificationControl(RESP_SPEECH_END) }
          /\ Notified(n)
    /\ UNCHANGED << env_input_source, sample_rate, model_file, ble_receiver, hotkey_trigger, keys_held, press_enter_after_paste, foreground, input_source, keyVars, rx, recVars,
                    trig_pc, bleVars, vocabulary, jobVars, next_sample >>

\* results of decoder.decode_bundle: Ok(samples), Ok(empty) and Err
DecodeResults == { "pcm", "empty", "error" }

\* NotificationResult::Audio(audio_data)
BleAudio ==
    /\ InnerLoop
    /\ link
    /\ next_sample <= MaxSamples
    /\ \E res \in DecodeResults :
          IF is_recording /\ res = "pcm"
          THEN /\ audio_buffer' = ExtendFromSlice(audio_buffer, << next_sample >>)
               /\ captured' = Append(captured, next_sample)
               /\ next_sample' = next_sample + 1
          ELSE UNCHANGED << audio_buffer, captured, next_sample >>
    /\ UNCHANGED << call, env_input_source, sample_rate, model_file, ble_receiver, hotkey_trigger, keys_held, press_enter_after_paste, foreground, input_source, keyVars, rx, is_recording,
                    is_locked, recording_stream, activate_ignored, last_close,
                    trig_pc, bleVars, vocabulary, jobVars >>

\* ------------------------------------------------------------ Opus codec
Byte == 0..MaxByte

\* i16 samples other than the zero of the padding
PcmValues == { 1, 2 }

SeqsUpTo(S, n) == UNION { [1..k -> S] : k \in 0..n }

Ok(v) == [ok |-> TRUE, val |-> v]
Err == [ok |-> FALSE, val |-> << >>]

\* Encoder::encode of one frame: a packet, here its header byte and the frame
OpusPacket(frame) == << MaxByte >> \o frame

IsOpusPacket(data) == Len(data) = FrameSamples + 1 /\ data[1] = MaxByte

\* OpusEncoder::encode_frame
encode_frame(pcm_samples) ==
    IF Len(pcm_samples) # FrameSamples THEN Err ELSE Ok(OpusPacket(pcm_samples))

\* OpusDecoder::decode_frame: nothing for no data, the samples of a packet, and
\* an error for bytes that are no packet
decode_frame(frame_data) ==
    IF frame_data = << >> THEN Ok(<< >>)
    ELSE IF IsOpusPacket(frame_data) THEN Ok(Tail(frame_data))
    ELSE Err

\* the loop of encode_buffer over the whole frames, from offset on
RECURSIVE EncodeWholeFrames(_, _)
EncodeWholeFrames(pcm_samples, offset) ==
    IF offset + FrameSamples <= Len(pcm_samples)
    THEN encode_frame(SubSeq(pcm_samples, offset + 1, offset + FrameSamples)).val
           \o EncodeWholeFrames(pcm_samples, offset + FrameSamples)
    ELSE << >>

\* OpusEncoder::encode_buffer: the packets of the whole frames one after the
\* other, then the packet of the rest padded with zeros
encode_buffer(pcm_samples) ==
    IF pcm_samples = << >> THEN Ok(<< >>)
    ELSE LET whole == (Len(pcm_samples) \div FrameSamples) * FrameSamples
             remaining == Len(pcm_samples) - whole
             padded_frame == SubSeq(pcm_samples, whole + 1, Len(pcm_samples))
                               \o [i \in 1..(FrameSamples - remaining) |-> 0]
         IN  Ok(EncodeWholeFrames(pcm_samples, 0)
                  \o (IF whole < Len(pcm_samples)
                      THEN encode_frame(padded_frame).val ELSE << >>))

\* if offset + frame_size > bundle_data.len() { break }; the strict variant
\* would also refuse a frame that ends with the data
FrameFits_strict(offset, frame_size, len) == offset + frame_size < len
FrameFits(offset, frame_size, len) == offset + frame_size <= len

\* the for loop of decode_bundle at frame_idx, with the 0-based offset, the
\* samples decoded so far and the highest index read so far
RECURSIVE DecodeFrames(_, _, _, _, _, _)
DecodeFrames(bundle_data, num_frames, frame_idx, offset, pcm_samples, read) ==
    LET done == [ok |-> TRUE, pcm |-> pcm_samples, frames |-> frame_idx, read |-> read]
    IN  IF frame_idx >= num_frames \/ offset >= Len(bundle_data) THEN done
        ELSE LET frame_size == bundle_data[offset + 1]
                 start == offset + 1
             IN  IF ~FrameFits(start, frame_size, Len(bundle_data)) THEN
                     [done EXCEPT !.read = start]
                 ELSE LET decoded ==
                            decode_frame(SubSeq(bundle_data, start + 1, start + frame_size))
                      IN  IF ~decoded.ok
                          THEN [ok |-> FALSE, pcm |-> << >>, frames |-> frame_idx,
                                read |-> start + frame_size]
                          ELSE DecodeFrames(bundle_data, num_frames, frame_idx + 1,
                                            start + frame_size,
                                            pcm_samples \o decoded.val,
                                            start + frame_size)

\* OpusDecoder::decode_bundle
decode_bundle(bundle_data) ==
    IF bundle_data = << >>
    THEN [ok |-> TRUE, pcm |-> << >>, frames |-> 0, read |-> 0]
    ELSE DecodeFrames(bundle_data, bundle_data[1], 0, 1, << >>, 1)

\* a bundle as the device sends it: [num_frames][frame1_size][frame1_data]...
RECURSIVE BundleFrames(_)
BundleFrames(frames) ==
    IF frames = << >> THEN << >>
    ELSE << Len(OpusPacket(Head(frames))) >> \o OpusPacket(Head(frames))
           \o BundleFrames(Tail(frames))

MakeBundle(frames) == << Len(frames) >> \o BundleFrames(frames)

\* the frames a bundle can carry within the byte range of the model
FrameLists == SeqsUpTo([1..FrameSamples -> PcmValues], MaxFrames)

RECURSIVE Flatten(_)
Flatten(frames) == IF frames = << >> THEN << >> ELSE Head(frames) \o Flatten(Tail(frames))

\* the calls of the codec that are about to be made
CodecCalls ==
    { Pending("roundtrip", B) : B \in SeqsUpTo(PcmValues, MaxPcm) }
      \cup { Pending("decode", data) : data \in SeqsUpTo(Byte, MaxBundle) }
      \cup UNION { { Pending("decode_cut", [frames |-> frames, cut |-> cut]) :
                      cut \in 0..Len(MakeBundle(frames)) } : frames \in FrameLists }

InitCodec == InitProgram /\ call \in CodecCalls

\* encode_buffer, then decode_bundle on its bytes
CallRoundTrip ==
    /\ call.fn = "roundtrip" /\ ~call.returned
    /\ call' = Returns(decode_bundle(encode_buffer(call.arg).val))
    /\ UNCHANGED << env_input_source, sample_rate, model_file, ble_receiver, hotkey_trigger, keys_held, press_enter_after_paste, foreground, input_source, keyVars, rx, recVars,
                    trig_pc, bleVars, vocabulary, jobVars, next_sample >>

\* decode_bundle on any bytes
CallDecodeBytes ==
    /\ call.fn = "decode" /\ ~call.returned
    /\ call' = Returns(decode_bundle(call.arg))
    /\ UNCHANGED << env_input_source, sample_rate, model_file, ble_receiver, hotkey_trigger, keys_held, press_enter_after_paste, foreground, input_source, keyVars, rx, recVars,
                    trig_pc, bleVars, vocabulary, jobVars, next_sample >>

\* decode_bundle on a bundle of the device of which only the first cut bytes
\* arrived
CallDecodeCut ==
    /\ call.fn = "decode_cut" /\ ~call.returned
    /\ call' = Returns(decode_bundle(SubSeq(MakeBundle(call.arg.frames), 1, call.arg.cut)))
    /\ UNCHANGED << env_input_source, sample_rate, model_file, ble_receiver, hotkey_trigger, keys_held, press_enter_after_paste, foreground, input_source, keyVars, rx, recVars,
                    trig_pc, bleVars, vocabulary, jobVars, next_sample >>

\* ------------------------------------------------------ text post-processing
\* a text is the sequence of its characters
Chars == { "a", " ", "." }

Texts == SeqsUpTo(Chars, MaxText)

\* ch == '.' || ch == '!' || ch == '?'; the other variant knows the period only
IsDelimiter_periodOnly(ch) == ch = "."
IsDelimiter(ch) == ch \in { ".", "!", "?" }

RECURSIVE trim_start(_)
trim_start(t) == IF t # << >> /\ Head(t) = " " THEN trim_start(Tail(t)) ELSE t

RECURSIVE trim_end(_)
trim_end(t) ==
    IF t # << >> /\ t[Len(t)] = " " THEN trim_end(SubSeq(t, 1, Len(t) - 1)) ELSE t

\* str::trim
trim(t) == trim_end(trim_start(t))

\* phrase.split_whitespace().count(): the places where a word begins
WordCount(phrase) ==
    Cardinality({ i \in 1..Len(phrase) :
                    phrase[i] # " " /\ (i = 1 \/ phrase[i - 1] = " ") })

\* if word_count < 4 the period is dropped, else it is kept; the other variant
\* drops the period of every phrase of two words or more
KeepsDelimiter_onlySingleWords(word_count) == word_count < 2
KeepsDelimiter(word_count) == ~(word_count < 4)

\* the for loop of strip_periods_from_short_phrases from character i on
RECURSIVE StripFrom(_, _, _, _)
StripFrom(text, i, result, current_phrase) ==
    IF i > Len(text) THEN
        trim(IF trim(current_phrase) # << >>
             THEN result \o trim(current_phrase) ELSE result)
    ELSE IF IsDelimiter(text[i]) THEN
        LET phrase == trim(current_phrase)
            ended == IF phrase = << >> THEN result
                     ELSE IF KeepsDelimiter(WordCount(phrase))
                          THEN result \o phrase \o << text[i] >> \o << " " >>
                          ELSE result \o phrase \o << " " >>
        IN  StripFrom(text, i + 1, ended, << >>)
    ELSE StripFrom(text, i + 1, result, Append(current_phrase, text[i]))

strip_periods_from_short_phrases(text) == StripFrom(text, 1, << >>, << >>)

\* transcripts with every kind of terminator, and transcripts that begin
\* with a phrase of four words
MarkedTexts == SeqsUpTo(Chars \cup { "?", "!" }, MaxMarked)

LongTexts ==
    { << "a", " ", "a", " ", "a", " ", "a" >> \o t :
        t \in SeqsUpTo(Chars \cup { "?", "!" }, MaxTail) }

InitText ==
    InitProgram
      /\ call \in { Pending("strip", t) : t \in Texts \cup MarkedTexts \cup LongTexts }

\* strip_periods_from_short_phrases on a transcript
CallStrip ==
    /\ call.fn = "strip" /\ ~call.returned
    /\ call' = Returns(strip_periods_from_short_phrases(call.arg))
    /\ UNCHANGED << env_input_source, sample_rate, model_file, ble_receiver, hotkey_trigger, keys_held, press_enter_after_paste, foreground, input_source, keyVars, rx, recVars,
                    trig_pc, bleVars, vocabulary, jobVars, next_sample >>

\* ----------------------------------------------------------- hotkey parser
LowerLetters ==
    << "a", "b", "c", "d", "e", "f", "g", "h", "i", "l", "m", "n", "o", "p", "r", "s", "t",
       "u", "y" >>
UpperLetters ==
    << "A", "B", "C", "D", "E", "F", "G", "H", "I", "L", "M", "N", "O", "P", "R", "S", "T",
       "U", "Y" >>

\* str::to_lowercase, which leaves its argument as it is in the other variant
to_lowercase_asIs(key_str) == key_str
to_lowercase(key_str) ==
    [i \in 1..Len(key_str) |->
        IF \E k \in 1..Len(UpperLetters) : UpperLetters[k] = key_str[i]
        THEN LowerLetters[CHOOSE k \in 1..Len(UpperLetters) : UpperLetters[k] = key_str[i]]
        ELSE key_str[i]]

\* the arms of the match of parse_hotkey
HotkeyArms ==
    {
      [name |-> << "f", "u", "n", "c", "t", "i", "o", "n" >>, key |-> "Function"],
      [name |-> << "f", "n" >>, key |-> "Function"],
      [name |-> << "f", "1" >>, key |-> "F1"],
      [name |-> << "f", "2" >>, key |-> "F2"],
      [name |-> << "f", "3" >>, key |-> "F3"],
      [name |-> << "f", "4" >>, key |-> "F4"],
      [name |-> << "f", "5" >>, key |-> "F5"],
      [name |-> << "f", "6" >>, key |-> "F6"],
      [name |-> << "f", "7" >>, key |-> "F7"],
      [name |-> << "f", "8" >>, key |-> "F8"],
      [name |-> << "f", "9" >>, key |-> "F9"],
      [name |-> << "f", "1", "0" >>, key |-> "F10"],
      [name |-> << "f", "1", "1" >>, key |-> "F11"],
      [name |-> << "f", "1", "2" >>, key |-> "F12"],
      [name |-> << "s", "p", "a", "c", "e" >>, key |-> "Space"],
      [name |-> << "c", "o", "n", "t", "r", "o", "l", "l", "e", "f", "t" >>, key |-> "ControlLeft"],
      [name |-> << "c", "t", "r", "l" >>, key |-> "ControlLeft"],
      [name |-> << "c", "o", "n", "t", "r", "o", "l", "r", "i", "g", "h", "t" >>, key |-> "ControlRight"],
      [name |-> << "a", "l", "t", "l", "e", "f", "t" >>, key |-> "Alt"],
      [name |-> << "a", "l", "t", "r", "i", "g", "h", "t" >>, key |-> "Alt"],
      [name |-> << "a", "l", "t" >>, key |-> "Alt"],
      [name |-> << "m", "e", "t", "a", "l", "e", "f", "t" >>, key |-> "MetaLeft"],
      [name |-> << "c", "m", "d" >>, key |-> "MetaLeft"],
      [name |-> << "c", "o", "m", "m", "a", "n", "d" >>, key |-> "MetaLeft"],
      [name |-> << "m", "e", "t", "a", "r", "i", "g", "h", "t" >>, key |-> "MetaRight"],
      [name |-> << "s", "h", "i", "f", "t", "l", "e", "f", "t" >>, key |-> "ShiftLeft"],
      [name |-> << "s", "h", "i", "f", "t" >>, key |-> "ShiftLeft"],
      [name |-> << "s", "h", "i", "f", "t", "r", "i", "g", "h", "t" >>, key |-> "ShiftRight"]
    }

parse_hotkey(key_str) ==
    LET arms == { arm \in HotkeyArms : arm.name = to_lowercase(key_str) }
    IN  IF arms = { } THEN None ELSE Some((CHOOSE arm \in arms : TRUE).key)

\* a name written with the letters at the places of upper in capitals
Capitalised(name, upper) ==
    [i \in 1..Len(name) |->
        IF i \in upper /\ \E k \in 1..Len(LowerLetters) : LowerLetters[k] = name[i]
        THEN UpperLetters[CHOOSE k \in 1..Len(LowerLetters) : LowerLetters[k] = name[i]]
        ELSE name[i]]

\* the values of --hotkey: the names of the arms with every run of their
\* letters in capitals, and every short string of letters, digits and spaces
HotkeyArgs ==
    UNION { { Capitalised(arm.name, a..b) : a, b \in 1..(Len(arm.name) + 1) } :
              arm \in HotkeyArms }
      \cup SeqsUpTo({ "f", "F", "n", "t", "0", "1", "3", " " }, MaxKeyName)

InitHotkey == InitProgram /\ call \in { Pending("parse_hotkey", a) : a \in HotkeyArgs }

\* main: parse_hotkey(&args[i + 1])
CallParseHotkey ==
    /\ call.fn = "parse_hotkey" /\ ~call.returned
    /\ call' = Returns(parse_hotkey(call.arg))
    /\ UNCHANGED << env_input_source, sample_rate, model_file, ble_receiver, hotkey_trigger, keys_held, press_enter_after_paste, foreground, input_source, keyVars, rx, recVars,
                    trig_pc, bleVars, vocabulary, jobVars, next_sample >>

\* ------------------------------------------------------ the lines of stdin
\* a line is the prefix that strip_prefix finds and the value after it; a
\* value is a text, and after VOCAB: the JSON document that it spells
Text(chars) == [text |-> chars, json |-> "unread", apps |-> << >>, commands |-> << >>]

JsonValues ==
    { [text |-> << >>, json |-> "object", apps |-> v.apps, commands |-> v.commands] :
        v \in VocabInputs }
      \cup { [text |-> << >>, json |-> "scalar", apps |-> << >>, commands |-> << >>],
              [text |-> << >>, json |-> "malformed", apps |-> << >>, commands |-> << >>] }

StdinLines ==
    [prefix : { "ENTER:" },
     value : { Text(<< " ", "1" >>), Text(<< "T", "r", "u", "e" >>), Text(<< "0" >>) }]
      \cup [prefix : { "INPUT_SOURCE:" },
            value : { Text(<< "s", "y", "s", "t", "e", "m" >>),
                      Text(<< " ", "B", "L", "E" >>), Text(<< "u", "s", "b" >>) }]
      \cup [prefix : { "VOCAB:" }, value : JsonValues]
      \cup [prefix : { "vocab:" }, value : { Text(<< >>) }]

\* serde_json::from_str::<serde_json::Value>; the other variant takes a
\* text that is no JSON for an empty document
from_str_lenient(value) == [ok |-> TRUE, val |-> value]
from_str(value) == [ok |-> value.json # "malformed", val |-> value]

\* vocab_json.get(key) as an array of strings, or the default
JsonStrings(vocab_json, key) ==
    IF vocab_json.json = "object" THEN vocab_json[key] ELSE << >>

\* the body of the loop of the stdin thread for one line
StdinCommand(cmd) ==
    IF cmd.prefix = "ENTER:" THEN
        /\ press_enter_after_paste' =
              (trim(cmd.value.text) = << "1" >>
                 \/ to_lowercase(trim(cmd.value.text)) = << "t", "r", "u", "e" >>)
        /\ UNCHANGED << input_source, vocabulary >>
    ELSE IF cmd.prefix = "INPUT_SOURCE:" THEN
        LET source == to_lowercase(trim(cmd.value.text))
        IN  /\ input_source' =
                  IF source = << "s", "y", "s", "t", "e", "m" >> THEN "system"
                  ELSE IF source = << "b", "l", "e" >> THEN "ble"
                  ELSE input_source
            /\ UNCHANGED << press_enter_after_paste, vocabulary >>
    ELSE IF cmd.prefix = "VOCAB:" /\ from_str(cmd.value).ok THEN
        /\ vocab_lock = 0
        /\ vocabulary' = [apps |-> JsonStrings(from_str(cmd.value).val, "apps"),
                          commands |-> JsonStrings(from_str(cmd.value).val, "commands")]
        /\ UNCHANGED << press_enter_after_paste, input_source >>
    ELSE UNCHANGED << press_enter_after_paste, input_source, vocabulary >>

\* the stdin thread reads a line; the line is kept as the last line read
StdinLine ==
    /\ ProcessAlive
    /\ \E cmd \in StdinLines :
          /\ StdinCommand(cmd)
          /\ call' = [fn |-> "stdin", arg |-> cmd, res |-> << >>, returned |-> TRUE]
    /\ UNCHANGED << env_input_source, sample_rate, model_file, ble_receiver, hotkey_trigger, keys_held, foreground, keyVars, rx, recVars,
                    trig_pc, bleVars, jobVars, next_sample >>

\* ------------------------------------------------------------ HotkeyTrigger
TriggerFrame ==
    UNCHANGED << call, env_input_source, sample_rate, model_file, ble_receiver, keys_held, press_enter_after_paste, foreground, input_source,
                 keyVars, rx, recVars, trig_pc, bleVars, vocabulary, jobVars, next_sample >>

\* the rdev listener of HotkeyTrigger::new: KeyPress(key) if key == trigger_key
ListenKeyPress ==
    /\ ProcessAlive
    /\ Len(hotkey_trigger.event_rx) < MaxQueue
    /\ hotkey_trigger' = [hotkey_trigger EXCEPT !.event_rx = Append(@, "Activated"),
                                                !.key = "press"]
    /\ TriggerFrame

\* KeyRelease(key) if key == trigger_key
ListenKeyRelease ==
    /\ ProcessAlive
    /\ hotkey_trigger.key = "press"
    /\ Len(hotkey_trigger.event_rx) < MaxQueue
    /\ hotkey_trigger' = [hotkey_trigger EXCEPT !.event_rx = Append(@, "Deactivated"),
                                                !.key = "release"]
    /\ TriggerFrame

\* HotkeyTrigger::try_recv: the next event, or None when there is none
TriggerTryRecv ==
    /\ ProcessAlive
    /\ hotkey_trigger.pc = "idle"
    /\ hotkey_trigger' =
          IF hotkey_trigger.event_rx = << >> THEN hotkey_trigger
          ELSE [hotkey_trigger EXCEPT !.event_rx = Tail(@)]
    /\ TriggerFrame

\* HotkeyTrigger::recv: blocks until there is an event
TriggerRecv ==
    /\ ProcessAlive
    /\ hotkey_trigger.pc = "idle"
    /\ hotkey_trigger.event_rx # << >>
    /\ hotkey_trigger' = [hotkey_trigger EXCEPT !.event_rx = Tail(@)]
    /\ TriggerFrame

\* the caller enters wait_for_activation or wait_for_deactivation
TriggerWaitCall ==
    /\ ProcessAlive
    /\ hotkey_trigger.pc = "idle"
    /\ \E pc \in { "wait_for_activation", "wait_for_deactivation" } :
          hotkey_trigger' = [hotkey_trigger EXCEPT !.pc = pc]
    /\ TriggerFrame

\* one turn of the loop of wait_for_activation or wait_for_deactivation: recv,
\* store the state, return on the awaited event
TriggerWaitRecv ==
    /\ ProcessAlive
    /\ hotkey_trigger.pc # "idle"
    /\ hotkey_trigger.event_rx # << >>
    /\ LET event == Head(hotkey_trigger.event_rx)
           awaited == IF hotkey_trigger.pc = "wait_for_activation"
                      THEN "Activated" ELSE "Deactivated"
       IN  hotkey_trigger' =
             [hotkey_trigger EXCEPT !.event_rx = Tail(@),
                                    !.is_active = (event = "Activated"),
                                    !.pc = IF event = awaited THEN "idle" ELSE @]
    /\ TriggerFrame

\* ----------------------------------------------- the text of the prompt
\* the strings one after the other with the pieces of between in between
RECURSIVE Interleaved(_, _)
Interleaved(strings, between) ==
    IF strings = << >> THEN << >>
    ELSE IF Len(strings) = 1 THEN Head(strings)
    ELSE Head(strings) \o between \o Interleaved(Tail(strings), between)

\* Vec<String>::join(sep) on strings written as sequences of pieces; the
\* glued variant forgets the separator
join_glued(strings, sep) == Interleaved(strings, << >>)
join(strings, sep) == Interleaved(strings, << sep >>)

\* a Vec<String> of names as the Vec of their texts
Strings(names) == [i \in 1..Len(names) |-> << names[i] >>]

\* the String that build_prompt makes of the parts it pushed: the format! of
\* the context, of vocab.apps and of vocab.commands, and parts.join(" ")
PromptString(parts) ==
    LET context ==
          IF parts.context = << >> THEN << >>
          ELSE IF parts.context[2] # ""
               THEN << << "You are transcribing for ", parts.context[1],
                          ". The current window is: ", parts.context[2], "." >> >>
               ELSE << << "You are transcribing for ", parts.context[1], "." >> >>
        vocab_parts ==
          (IF parts.apps # << >>
           THEN << << "Voice commands: open " >> \o join(Strings(parts.apps), ", ")
                     \o << "." >> >>
           ELSE << >>)
          \o (IF parts.commands # << >>
              THEN << << "Commands: " >> \o join(Strings(parts.commands), ", ")
                        \o << "." >> >>
              ELSE << >>)
    IN  join(context \o (IF vocab_parts # << >> THEN << join(vocab_parts, " ") >>
                         ELSE << >>), " ")

\* the arguments of build_prompt: what the probe of the context can return
\* and the vocabularies a VOCAB: line can set
PromptArgs ==
    [app_name : { "", "Unknown", "unknown", "Slack" },
     window_title : { "", "general" },
     vocab : [apps : SeqsUpTo({ "Slack", "Mail" }, MaxVocab),
              commands : SeqsUpTo({ "send", "quit" }, MaxVocab)]]

InitPrompt == InitProgram /\ call \in { Pending("build_prompt", a) : a \in PromptArgs }

\* build_prompt(app_name, window_title, &vocab) as the transcription thread
\* calls it, with the String it returns
CallBuildPrompt ==
    /\ call.fn = "build_prompt" /\ ~call.returned
    /\ LET prompt == build_prompt(call.arg.app_name, call.arg.window_title,
                                  call.arg.vocab)
       IN  call' = Returns(IF prompt = None THEN None
                           ELSE Some(PromptString(prompt[1])))
    /\ UNCHANGED << env_input_source, sample_rate, model_file, ble_receiver, hotkey_trigger, keys_held, press_enter_after_paste, foreground, input_source, keyVars, rx, recVars,
                    trig_pc, bleVars, vocabulary, jobVars, next_sample >>

\* ------------------------------------------------------ the encode thread
\* the lines the encode thread prints, in the order of its println! calls
AudioLines == << "AUDIO_DATA", "AUDIO_DURATION", "AUDIO_WAV" >>

\* the place of the encode thread after n of its lines
EncoderPcs == << "spawned", "data", "duration", "done" >>

\* the next println! of the encode thread of utterance j: OpusEncoder::new and
\* encode_buffer have returned Ok
EncodeStep(j) ==
    /\ ProcessAlive
    /\ j \in 1..Len(jobs)
    /\ \E n \in 1..Len(AudioLines) :
          /\ jobs[j].encoder = EncoderPcs[n]
          /\ encode_buffer(jobs[j].samples).ok
          /\ out' = Append(out, [line |-> AudioLines[n], job |-> j, ok |-> TRUE,
                                 app |-> ""])
          /\ jobs' = [jobs EXCEPT ![j].encoder = EncoderPcs[n + 1]]
    /\ UNCHANGED << call, env_input_source, sample_rate, model_file, ble_receiver, hotkey_trigger, keys_held, press_enter_after_paste, foreground, input_source, keyVars, rx, recVars, trig_pc,
                    bleVars, vocabulary, vocab_lock, engine, initial_prompt,
                    prompt_setter, next_sample, perf_history >>

\* a step of one of the encode threads
EncodeThreads == \E j \in 1..Len(jobs) : EncodeStep(j)

\* ------------------------------------------------------ BleAudioReceiver
\* one attempt to connect as the environment decides it: whether the scan
\* finds a device, whether connect and discover_services succeed, whether the
\* device found has the Memo service and its two characteristics, and whether
\* a subscription the device can serve succeeds
Attempts ==
    [found : BOOLEAN, connected : BOOLEAN, discovered : BOOLEAN, service : BOOLEAN,
     audio_data : BOOLEAN, control_tx : BOOLEAN,
     subscribe_audio_data : BOOLEAN, subscribe_control_tx : BOOLEAN]

\* the steps of connect and connect_trigger_only up to discover_services
Reached(a) == a.found /\ a.connected /\ a.discovered

\* periph.subscribe(char): an error for a characteristic the device has not
subscribe(a, char) ==
    IF char = "audio_data" THEN a.service /\ a.audio_data /\ a.subscribe_audio_data
    ELSE a.service /\ a.control_tx /\ a.subscribe_control_tx

\* the result of a call: Ok or Err, the receiver after it, and the
\* characteristics that were subscribed
Connected(self, subscribed) ==
    [ok |-> TRUE, self |-> [self EXCEPT !.periph = TRUE], subscribed |-> subscribed]
Failed(self, subscribed) == [ok |-> FALSE, self |-> self, subscribed |-> subscribed]

\* the loop over the characteristics of the Memo service: a characteristic
\* that is found is stored, one that is not found keeps what the field held
FindCharacteristics(self, a) ==
    [self EXCEPT !.char_audio_data = @ \/ a.audio_data,
                 !.char_control_tx = @ \/ a.control_tx]

\* BleAudioReceiver::connect
connect(self, a) ==
    IF ~Reached(a) \/ ~a.service THEN Failed(self, { })
    ELSE LET found == FindCharacteristics(self, a)
         IN  IF ~found.char_audio_data THEN Failed(found, { })
             ELSE IF ~subscribe(a, "audio_data") THEN Failed(found, { })
             ELSE IF ~found.char_control_tx THEN Connected(found, { "audio_data" })
             ELSE IF ~subscribe(a, "control_tx") THEN Failed(found, { "audio_data" })
             ELSE Connected(found, { "audio_data", "control_tx" })

\* BleAudioReceiver::connect_trigger_only
connect_trigger_only(self, a) ==
    IF ~Reached(a) \/ ~a.service THEN Failed(self, { })
    ELSE LET found == [self EXCEPT !.char_control_tx = @ \/ a.control_tx]
         IN  IF ~found.char_control_tx THEN Failed(found, { })
             ELSE IF ~subscribe(a, "control_tx") THEN Failed(found, { })
             ELSE Connected(found, { "control_tx" })

\* BleAudioReceiver::disconnect: nothing without a peripheral, and nothing is
\* reset when periph.disconnect() fails
disconnect(self, ok) ==
    IF self.periph /\ ok
    THEN [self EXCEPT !.periph = FALSE, !.char_audio_data = FALSE,
                      !.char_control_tx = FALSE]
    ELSE self

ReceiverFrame ==
    UNCHANGED << env_input_source, sample_rate, model_file, hotkey_trigger, keys_held, press_enter_after_paste, foreground, input_source,
                 keyVars, rx, recVars, trig_pc, bleVars, vocabulary, jobVars, next_sample >>

\* run_ble_audio_mode: ble_receiver.connect, first and in attempt_reconnect
ReceiverConnect ==
    /\ BleMode
    /\ ble_receiver.pc \in { "new", "disconnected" }
    /\ \E a \in Attempts :
          LET res == connect(ble_receiver, a)
          IN  /\ ble_receiver' =
                    [res.self EXCEPT !.pc = IF res.ok THEN "connected"
                                            ELSE IF @ = "new" THEN "returned"
                                            ELSE "failed"]
              /\ call' = [fn |-> "connect", arg |-> [self |-> ble_receiver, attempt |-> a],
                          res |-> [res EXCEPT !.self = ble_receiver'], returned |-> TRUE]
    /\ ReceiverFrame

\* the BLE trigger thread of system mode: connect_trigger_only on a new
\* receiver; the thread returns on an error
ReceiverConnectTriggerOnly ==
    /\ SystemMode
    /\ ble_receiver.pc = "new"
    /\ \E a \in Attempts :
          LET res == connect_trigger_only(ble_receiver, a)
          IN  /\ ble_receiver' =
                    [res.self EXCEPT !.pc = IF res.ok THEN "connected" ELSE "returned"]
              /\ call' = [fn |-> "connect_trigger_only",
                          arg |-> [self |-> ble_receiver, attempt |-> a],
                          res |-> [res EXCEPT !.self = ble_receiver'], returned |-> TRUE]
    /\ ReceiverFrame

\* attempt_reconnect: ble_receiver.disconnect().await.ok(), after the device
\* was lost or after a reconnection that failed
ReceiverDisconnect ==
    /\ BleMode
    /\ ble_receiver.pc \in { "connected", "failed" }
    /\ \E ok \in BOOLEAN :
          ble_receiver' = [disconnect(ble_receiver, ok) EXCEPT !.pc = "disconnected"]
    /\ UNCHANGED call
    /\ ReceiverFrame

\* ------------------------------------- the stdin thread, line by line
\* one line of each command of the stdin protocol: ENTER: switches the Enter
\* key on, INPUT_SOURCE: names the source in use, VOCAB: clears both lists
CommandLines ==
    { cmd \in StdinLines :
        \/ cmd.prefix = "ENTER:" /\ cmd.value = Text(<< " ", "1" >>)
        \/ cmd.prefix = "INPUT_SOURCE:"
              /\ cmd.value = Text(<< "s", "y", "s", "t", "e", "m" >>)
        \/ cmd.prefix = "VOCAB:" /\ cmd.value.json = "object" /\ cmd.value.apps = << >> }

\* for line in stdin.lock().lines(): the thread has read its next line and has
\* not yet run the body of the loop for it
StdinRead ==
    /\ ProcessAlive
    /\ call = NoCall
    /\ \E cmd \in CommandLines : call' = Pending("stdin", cmd)
    /\ UNCHANGED << env_input_source, sample_rate, model_file, ble_receiver, hotkey_trigger, keys_held,
                    press_enter_after_paste, foreground, input_source, keyVars, rx,
                    recVars, trig_pc, bleVars, vocabulary, jobVars, next_sample >>

\* the body of the loop for the line read, after which the thread reads again;
\* a VOCAB: line waits in vocabulary_clone.lock() while a transcription thread
\* holds the mutex
StdinApply ==
    /\ ProcessAlive
    /\ call.fn = "stdin" /\ ~call.returned
    /\ StdinCommand(call.arg)
    /\ call' = NoCall
    /\ UNCHANGED << env_input_source, sample_rate, model_file, ble_receiver, hotkey_trigger, keys_held,
                    foreground, keyVars, rx, recVars, trig_pc, bleVars, jobVars,
                    next_sample >>

\* ------------------------------------------------------------ model.rs
\* the reads of 8192 bytes that the whole model file takes
ModelChunks == 2

\* what the server and the disk do during one download: agent.get(url).call()
\* succeeds or not, the Content-Length header (0 when there is none),
\* File::create succeeds or not, the chunks that reader.read delivers, and how
\* the loop ends: read returns 0, read fails, or write_all fails on the last
\* chunk read
Responses ==
    { r \in [call_ok : BOOLEAN, content_length : { 0, ModelChunks },
             create_ok : BOOLEAN, chunks : 0..ModelChunks,
             end : { "eof", "read_error", "write_error" }] :
        r.end = "write_error" => r.chunks > 0 }

\* download_file(url, dest): the result and the file at dest afterwards, as
\* the number of chunks it holds
download_file(file, r) ==
    IF ~r.call_ok \/ ~r.create_ok THEN [ok |-> FALSE, file |-> file]
    ELSE LET downloaded == IF r.end = "write_error" THEN r.chunks - 1 ELSE r.chunks
         IN  IF r.end # "eof" THEN [ok |-> FALSE, file |-> Some(downloaded)]
             ELSE IF r.content_length > 0 /\ downloaded # r.content_length
             THEN [ok |-> FALSE, file |-> Some(downloaded)]
             ELSE [ok |-> TRUE, file |-> Some(downloaded)]

\* download_model_if_needed(dest, model_name)
download_model_if_needed(file, r) ==
    IF file # None THEN [ok |-> TRUE, file |-> file] ELSE download_file(file, r)

\* ensure_model(model_path) for the default model: model_path.exists(), or
\* the download to default_model_path()
ensure_model(file, r) ==
    IF file # None THEN [ok |-> TRUE, file |-> file]
    ELSE download_model_if_needed(file, r)

\* a start of the program: SttEngine::new_default calls ensure_model
EnsureModel ==
    /\ call.fn \in { "none", "ensure_model" }
    /\ \E r \in Responses :
          LET res == ensure_model(model_file, r)
          IN  /\ model_file' = res.file
              /\ call' = [fn |-> "ensure_model",
                          arg |-> [file |-> model_file, response |-> r],
                          res |-> res, returned |-> TRUE]
    /\ UNCHANGED << env_input_source, sample_rate, ble_receiver, hotkey_trigger, keys_held,
                    press_enter_after_paste, foreground, input_source, keyVars, rx,
                    recVars, trig_pc, bleVars, vocabulary, jobVars, next_sample >>

\* ------------------------------------------------------------------- Next
\* the plain trigger: press and release, SpeechStart and SpeechEnd, and audio
PlainSession ==
    \/ KeyPressTrigger \/ KeyReleaseTrigger \/ CaptureCallback
    \/ HandleStartRecording \/ HandleStopRecording
    \/ BleConnect \/ BleGetStream \/ BleSpeechStart \/ BleSpeechEnd \/ BleAudio

\* the lock chord, the BLE trigger-only thread, the device and the reconnection
LockAndTransport ==
    \/ KeyPressControl \/ KeyReleaseControl \/ HandleToggleLock
    \/ TrigConnect \/ TrigSpeechStart \/ TrigSpeechEnd \/ TrigStreamEnded
    \/ DeviceDrop \/ DeviceReturn
    \/ BleGetStreamFailed \/ BleReconnectA \/ BleHealthCheckFailed
    \/ BleStreamEnded \/ BleReconnectB
    \/ StdinInputSource \/ BleOuterExit \/ BleInnerExit

Next ==
    \/ KeyPressTrigger \/ KeyReleaseTrigger \/ KeyPressControl \/ KeyReleaseControl
    \/ KeyPressControlRight \/ KeyReleaseControlRight
    \/ CaptureCallback
    \/ HandleStartRecording \/ HandleStopRecording \/ HandleToggleLock
    \/ TrigConnect \/ TrigSpeechStart \/ TrigSpeechEnd \/ TrigStreamEnded
    \/ DeviceDrop \/ DeviceReturn
    \/ StdinVocab \/ StdinInputSource \/ ForegroundChange
    \/ CallRoundTrip \/ CallDecodeBytes \/ CallDecodeCut \/ CallStrip
    \/ CallParseHotkey
    \/ TrigOtherNotification \/ BleOtherNotification
    \/ StdinLine \/ PerfRecord
    \/ ListenKeyPress \/ ListenKeyRelease \/ TriggerTryRecv \/ TriggerRecv
    \/ TriggerWaitCall \/ TriggerWaitRecv
    \/ CallBuildPrompt
    \/ EncodeThreads
    \/ ReceiverConnect \/ ReceiverConnectTriggerOnly \/ ReceiverDisconnect
    \/ StdinRead \/ StdinApply
    \/ CaptureCallbackSecond
    \/ EnsureModel
    \/ JobStep
    \/ BleConnect \/ BleOuterExit \/ BleGetStream \/ BleGetStreamFailed
    \/ BleReconnectA \/ BleInnerExit \/ BleHealthCheckFailed \/ BleStreamEnded
    \/ BleReconnectB \/ BleSpeechStart \/ BleSpeechEnd \/ BleAudio

Spec == Init /\ [][Next]_vars

\* the session layer of both modes: every trigger source, the capture, the
\* transport and its reconnection; transcription threads are spawned, not run
NextSession == PlainSession \/ LockAndTransport

SpecSession == Init /\ [][NextSession]_vars

\* the transcription threads and the vocabulary, fed by plain sessions
NextJobs == PlainSession \/ JobStep \/ StdinVocab

SpecJobs == Init /\ [][NextJobs]_vars

\* the transcription threads while the frontmost application changes
NextContext == PlainSession \/ JobStep \/ ForegroundChange

SpecContext == Init /\ [][NextContext]_vars

\* the Opus codec called on buffers, on bytes and on bundles that are cut
NextCodec == CallRoundTrip \/ CallDecodeBytes \/ CallDecodeCut

SpecCodec == InitCodec /\ [][NextCodec]_vars

\* the post-processing of a transcript
NextText == CallStrip

SpecText == InitText /\ [][NextText]_vars

\* the parsing of the --hotkey argument
NextHotkey == CallParseHotkey

SpecHotkey == InitHotkey /\ [][NextHotkey]_vars

\* the sessions of both modes with every notification of the device
NextNotify ==
    \/ PlainSession
    \/ TrigConnect \/ TrigSpeechStart \/ TrigSpeechEnd \/ TrigOtherNotification
    \/ BleOtherNotification

SpecNotify == Init /\ [][NextNotify]_vars

\* the stdin thread beside the sessions of BLE audio mode and the
\* transcription threads
NextStdin ==
    \/ BleConnect \/ BleGetStream \/ BleSpeechStart \/ BleSpeechEnd \/ BleAudio
    \/ JobStep \/ StdinLine

SpecStdin == Init /\ [][NextStdin]_vars

\* sessions and transcription threads with VOCAB: lines that arrive between
\* the sessions, so that every utterance is recorded under one vocabulary
NextVocab == PlainSession \/ JobStep \/ StdinVocabBetweenSessions

SpecVocab == Init /\ [][NextVocab]_vars

\* the performance history over many transcriptions
NextPerf == PerfRecord

SpecPerf == Init /\ [][NextPerf]_vars

\* a HotkeyTrigger, the listener that feeds it and a caller that consumes its
\* events
NextTrigger ==
    \/ ListenKeyPress \/ ListenKeyRelease \/ TriggerTryRecv \/ TriggerRecv
    \/ TriggerWaitCall \/ TriggerWaitRecv

SpecTrigger == Init /\ [][NextTrigger]_vars

\* BLE audio mode with its reconnection and the transcription threads
NextBleJobs ==
    \/ BleConnect \/ BleGetStream \/ BleSpeechStart \/ BleSpeechEnd \/ BleAudio
    \/ DeviceDrop \/ DeviceReturn
    \/ BleGetStreamFailed \/ BleReconnectA \/ BleHealthCheckFailed
    \/ BleStreamEnded \/ BleReconnectB
    \/ JobStep

SpecBleJobs == Init /\ [][NextBleJobs]_vars

\* ------------------------------------------------------------------ claims
IsPrefix(a, b) == Len(a) <= Len(b) /\ SubSeq(b, 1, Len(a)) = a

JobIds == 1..Len(jobs)

\* the job has called transcribe and transcribe has returned
Transcribed(j) == jobs[j].pc \in { "final", "inject", "done" }

\* C1: while a session is open no step opens another one: across every step
\* that starts and ends with is_recording true (an Activate received while
\* recording among them) the capture stream stays the same stream and the audio
\* buffer is only appended to, never cleared.
C1_SingleSession ==
    [][ is_recording /\ is_recording' =>
          /\ recording_stream' = recording_stream
          /\ IsPrefix(audio_buffer, audio_buffer') ]_vars

\* C1 witness: an Activate has been received while recording, and the session
\* is still open with the samples captured before it
C1_Witness == activate_ignored /\ is_recording /\ audio_buffer # << >>

\* C2 (as claimed): in system mode a recording that is locked ends only in the
\* step that processes a ToggleLock.
C2_LockedEndsOnlyByToggle ==
    [][ env_input_source = "system" /\ is_locked /\ is_recording /\ ~is_recording'
          => rx # << >> /\ Head(rx) = "ToggleLock" /\ rx' = Tail(rx) ]_vars

\* C3: every transcription job holds exactly the samples appended to the audio
\* buffer during its own session, in capture order, and no sample is in the
\* jobs of two sessions.
C3_UtteranceAtomicity ==
    /\ \A j \in JobIds : jobs[j].samples = jobs[j].session /\ jobs[j].samples # << >>
    /\ \A i, j \in JobIds :
          i # j => Range(jobs[i].samples) \cap Range(jobs[j].samples) = { }

\* C3 witness: a job was spawned for a session in which two samples were captured
C3_Witness == \E j \in JobIds : Len(jobs[j].samples) = 2

\* C4 (as claimed): in BLE audio mode no sample that was in the buffer when the
\* link was lost is ever given to transcribe.
C4_InterruptedNeverTranscribed ==
    \A j \in JobIds :
        Transcribed(j) => Range(jobs[j].samples) \cap interrupted = { }

\* C5: between a job's set_prompt and its transcribe the engine holds the prompt
\* that this job set, and every transcribe call that has returned was preceded
\* by the set_prompt call of the same job, also when the prompt is None.
C5_PromptFreshness ==
    \A j \in JobIds :
        /\ jobs[j].pc = "prompted" =>
              prompt_setter = j /\ initial_prompt = jobs[j].prompt
        /\ Transcribed(j) => jobs[j].heard_from = j

\* C5 witness: two jobs exist at once, and the second has transcribed after its
\* own set_prompt(None) while the first is still waiting for the engine
C5_Witness ==
    /\ Len(jobs) = 2
    /\ jobs[1].pc = "spawned"
    /\ Transcribed(2) /\ jobs[2].heard_from = 2
    /\ prompt_setter = 2 /\ initial_prompt = None

\* C6 (as claimed): the prompt of a job is built from the vocabulary as it was
\* when the recording of that job stopped.
C6_VocabularySnapshotAtStop ==
    \A j \in JobIds :
        jobs[j].pc \in { "prompted", "final", "inject" } =>
            jobs[j].prompt = build_prompt(jobs[j].context.app_name,
                                          jobs[j].context.window_title,
                                          jobs[j].vocab_at_stop)

\* C7: an inject_text call of a job comes after the FINAL: line of that job, and
\* a job with a non-empty transcript that has reached or passed its injection
\* has emitted its FINAL: line, whatever the injection returned.
C7_FinalBeforeInject ==
    /\ \A i \in 1..Len(out) :
          out[i].line = "INJECT" =>
              \E k \in 1..(i - 1) : out[k].line = "FINAL" /\ out[k].job = out[i].job
    /\ \A j \in JobIds :
          jobs[j].text = "text" /\ jobs[j].pc \in { "inject", "done" } =>
              \E k \in 1..Len(out) : out[k].line = "FINAL" /\ out[k].job = j

\* C7 witness: an injection has failed, after the FINAL: line of its job
C7_Witness ==
    \E i \in 1..Len(out) : out[i].line = "INJECT" /\ ~out[i].ok

\* C8 (as claimed): a job that is about to emit FINAL: or to inject no longer
\* holds the engine mutex.
C8_EngineReleasedAfterTranscribe ==
    \A j \in JobIds : jobs[j].pc \in { "final", "inject" } => engine # j

\* C9: the delay slept before the k-th consecutive try since the last successful
\* connect is min(2 * 2^min(k,4), 30), that is 2, 4, 8, 16, 30, 30, 30 for
\* k = 0..6, on both reconnect paths, and after a successful connect the attempt
\* counter is 0 and the next delay is 2.
C9_ReconnectBackoff ==
    /\ ble_pc \in { "sleepA", "sleepB" } =>
          /\ tries >= 1
          /\ last_delay = Min(2 * 2^Min(tries - 1, 4), 30)
          /\ tries <= 7 => last_delay = << 2, 4, 8, 16, 30, 30, 30 >>[tries]
    /\ tries = 0 => reconnect_attempts = 0 /\ ReconnectDelay(reconnect_attempts) = 2

\* C9 witness: the seventh consecutive try (k = 6) sleeps on the
\* attempt_reconnect path
C9_Witness == ble_pc = "sleepA" /\ tries = 7 /\ last_delay = 30

\* C10 (as claimed): a transport whose notification stream has ended goes on to
\* reconnect; neither the BLE audio loop nor the trigger-only thread ends there.
C10_TransportNeverGivesUp == trig_pc # "ended"

\* the step takes the event ev from the channel and handles it
Handles(ev) == rx # << >> /\ Head(rx) = ev /\ rx' = Tail(rx)

\* the step closes the open session
ClosesSession == is_recording /\ ~is_recording'

\* jobs that have been spawned and have not ended, and jobs that have ended
InFlight(js) == Cardinality({ j \in 1..Len(js) : js[j].pc # "done" })
Completed(js) == Cardinality({ j \in 1..Len(js) : js[j].pc = "done" })

\* C11 (as claimed): once the input source named on stdin differs from the one
\* the process was started with, the process goes on running an audio loop, and
\* no new session is opened on the system microphone while the named source
\* is ble.
C11_SwitchTakesEffect ==
    [][ input_source # env_input_source =>
          /\ ProcessAlive'
          /\ input_source = "ble" /\ recording_stream = 0 => recording_stream' = 0 ]_vars

\* C12: the step that handles a ToggleLock while the orchestrator is recording
\* and locked leaves it idle and unlocked, with no capture stream and an empty
\* buffer, and adds exactly one job, holding the taken samples, when they are
\* not empty, and no job when they are empty.
C12_UnlockStopsAndSpawns ==
    [][ Handles("ToggleLock") /\ is_locked /\ is_recording =>
          /\ ~is_recording' /\ ~is_locked'
          /\ recording_stream' = 0 /\ audio_buffer' = << >>
          /\ IF audio_buffer # << >>
             THEN /\ Len(jobs') = Len(jobs) + 1
                  /\ SubSeq(jobs', 1, Len(jobs)) = jobs
                  /\ jobs'[Len(jobs')].samples = audio_buffer
             ELSE jobs' = jobs ]_vars

\* C12 witness: an unlocking ToggleLock has closed a session with samples
C12_Witness ==
    /\ last_close = [by |-> "ToggleLock", empty |-> FALSE]
    /\ ~is_locked /\ ~is_recording /\ jobs # << >>

\* C14: a step that closes a session whose buffer is empty spawns no job, and
\* no job ever holds an empty sample vector, so that nothing is transcribed,
\* printed or injected for such a session.
C14_EmptySessionDiscarded ==
    [][ /\ ClosesSession /\ audio_buffer = << >> => jobs' = jobs /\ out' = out
        /\ \A j \in 1..Len(jobs') : jobs'[j].samples # << >> ]_vars

\* C14 witness: an unlocking ToggleLock has closed a session with an empty
\* buffer and there is no job
C14_Witness == last_close = [by |-> "ToggleLock", empty |-> TRUE] /\ jobs = << >>

C17_KeyboardDrivesBleMode == ble_pc = "inner" => KeyboardListenerSpawned

\* C13 (as claimed): the application reported in the FINAL: line of a job is
\* the application that was used to build the prompt of that job.
C13_ContextCapturedOnce ==
    \A i \in 1..Len(out) :
        out[i].line = "FINAL" /\ jobs[out[i].job].pc = "inject" =>
            out[i].app = jobs[out[i].job].context.app_name

\* C15: a job whose samples make less than a second, once transcribe has
\* returned, has the audio-too-short error and has ended: it has no FINAL: line
\* and no injection, it pushed no perf sample and it holds neither the engine
\* nor the vocabulary lock.
C15_AudioTooShort ==
    \A j \in JobIds :
        Len(jobs[j].samples) < OneSecond /\ Transcribed(j) =>
            /\ jobs[j].text = "too_short" /\ jobs[j].pc = "done"
            /\ \A i \in 1..Len(out) : out[i].job # j
            /\ j \notin Range(perf_history)
            /\ engine # j /\ vocab_lock # j

\* C15 witness: a job has failed with audio-too-short, and after it the
\* orchestrator has opened a session that is capturing
C15_Witness ==
    /\ \E j \in JobIds : jobs[j].text = "too_short"
    /\ is_recording /\ audio_buffer # << >>

\* C18 (as claimed): decode_bundle on the bytes of encode_buffer(B) succeeds
\* and yields ceil(L / frame) * frame samples of which the first L are B.
C18_OpusRoundTrip ==
    call.fn = "roundtrip" /\ call.returned =>
        LET L == Len(call.arg)
        IN  /\ call.res.ok
            /\ Len(call.res.pcm) = ((L + FrameSamples - 1) \div FrameSamples) * FrameSamples
            /\ SubSeq(call.res.pcm, 1, L) = call.arg

\* the frames of a bundle that lie completely within its first cut bytes
CompleteFrames(frames, cut) ==
    LET fits == { k \in 0..Len(frames) : Len(MakeBundle(SubSeq(frames, 1, k))) <= cut }
    IN  IF fits = { } THEN << >>
        ELSE SubSeq(frames, 1, CHOOSE k \in fits : \A m \in fits : m <= k)

\* C19: on any bytes decode_bundle reads no index past the end of its input and
\* decodes at most num_frames frames; on a bundle that is cut at any offset it
\* returns Ok with the samples of exactly the frames that are completely
\* present, in their order.
C19_DecodeBundleBounded ==
    /\ call.fn = "decode" /\ call.returned =>
          /\ call.res.read <= Len(call.arg)
          /\ call.arg # << >> => call.res.frames <= call.arg[1]
    /\ call.fn = "decode_cut" /\ call.returned =>
          /\ call.res.ok
          /\ call.res.read <= call.arg.cut
          /\ call.res.pcm = Flatten(CompleteFrames(call.arg.frames, call.arg.cut))

\* C19 witness: a bundle of two frames was cut inside its second frame and the
\* samples of the first frame came back
C19_Witness ==
    /\ call.fn = "decode_cut" /\ call.returned
    /\ Len(call.arg.frames) = 2
    /\ call.arg.cut = Len(MakeBundle(call.arg.frames)) - 1
    /\ call.res.pcm = call.arg.frames[1]

\* C20: text post-processing is idempotent: applied to its own result,
\* strip_periods_from_short_phrases returns that result unchanged.
C20_StripIdempotent ==
    call.fn = "strip" /\ call.returned =>
        strip_periods_from_short_phrases(call.res) = call.res

\* C20 witness: two short phrases lost their periods and became one phrase
C20_Witness ==
    /\ call.fn = "strip" /\ call.returned
    /\ Cardinality({ i \in 1..Len(call.arg) : call.arg[i] = "." }) = 2
    /\ \A i \in 1..Len(call.res) : call.res[i] # "."
    /\ WordCount(call.res) = 2

\* the names of keys that the documentation lists
C21_DocumentedNames ==
    {
      << "f", "u", "n", "c", "t", "i", "o", "n" >>,
      << "f", "n" >>,
      << "f", "1" >>,
      << "f", "2" >>,
      << "f", "3" >>,
      << "f", "4" >>,
      << "f", "5" >>,
      << "f", "6" >>,
      << "f", "7" >>,
      << "f", "8" >>,
      << "f", "9" >>,
      << "f", "1", "0" >>,
      << "f", "1", "1" >>,
      << "f", "1", "2" >>,
      << "s", "p", "a", "c", "e" >>,
      << "c", "t", "r", "l" >>,
      << "c", "o", "n", "t", "r", "o", "l", "l", "e", "f", "t" >>,
      << "c", "o", "n", "t", "r", "o", "l", "r", "i", "g", "h", "t" >>,
      << "a", "l", "t" >>,
      << "a", "l", "t", "l", "e", "f", "t" >>,
      << "a", "l", "t", "r", "i", "g", "h", "t" >>,
      << "c", "m", "d" >>,
      << "c", "o", "m", "m", "a", "n", "d" >>,
      << "m", "e", "t", "a", "l", "e", "f", "t" >>,
      << "m", "e", "t", "a", "r", "i", "g", "h", "t" >>,
      << "s", "h", "i", "f", "t" >>,
      << "s", "h", "i", "f", "t", "l", "e", "f", "t" >>,
      << "s", "h", "i", "f", "t", "r", "i", "g", "h", "t" >>
    }

\* a string is a name up to the case of its letters
C21_SameUpToCase(key_str, name) ==
    /\ Len(key_str) = Len(name)
    /\ \A i \in 1..Len(name) :
          \/ key_str[i] = name[i]
          \/ \E k \in 1..Len(LowerLetters) :
                 LowerLetters[k] = name[i] /\ UpperLetters[k] = key_str[i]

\* C21: parse_hotkey returns a key for a string exactly when the string,
\* whatever the case of its letters, is a documented name, and None otherwise;
\* the key is the one of the name in small letters.
C21_ParseHotkeyTotal ==
    call.fn = "parse_hotkey" /\ call.returned =>
        /\ call.res # None <=>
              \E name \in C21_DocumentedNames : C21_SameUpToCase(call.arg, name)
        /\ \A name \in C21_DocumentedNames :
              C21_SameUpToCase(call.arg, name) => call.res = parse_hotkey(name)

\* C21 witness: a documented name in mixed case was parsed to its key
C21_Witness ==
    /\ call.fn = "parse_hotkey" /\ call.returned
    /\ call.arg = << "s", "H", "I", "F", "t" >>
    /\ call.res = Some("ShiftLeft")

\* every variable of the program but the record of the last call
C22_ProgramState ==
    << env_input_source, sample_rate, model_file, ble_receiver, hotkey_trigger, keys_held, press_enter_after_paste, foreground, input_source, keyVars, rx, recVars, trig_pc,
       bleVars, vocabulary, jobVars, next_sample >>

\* C22: a notification of Control TX is mapped by its first byte, 0x01 to the
\* start of speech and 0x02 to its end; a notification with another first
\* byte, with no payload or from a characteristic that is neither Audio Data
\* nor Control TX produces no event and changes no state.
C22_ControlMapping ==
    [][ (call'.fn = "process_notification"
           /\ (call.fn = "process_notification" => call'.arg # call.arg)) =>
          LET n == call'.arg
              code == IF n.uuid = "control_tx" /\ n.value # << >> THEN n.value[1] ELSE 0
          IN  /\ code = 1 =>
                    IF env_input_source = "ble"
                    THEN is_recording' /\ (~is_recording => audio_buffer' = << >>)
                    ELSE rx' = Append(rx, "StartRecording")
              /\ code = 2 =>
                    IF env_input_source = "ble"
                    THEN ~is_recording'
                    ELSE rx' = IF is_locked THEN rx ELSE Append(rx, "StopRecording")
              /\ code \notin { 1, 2 } => UNCHANGED C22_ProgramState ]_vars

\* C22 witness: while a session was recording in BLE audio mode, a Control TX
\* notification with another first byte was processed and the session goes on
C22_Witness ==
    /\ env_input_source = "ble"
    /\ call.fn = "process_notification"
    /\ call.arg.uuid = "control_tx" /\ call.arg.value = << 3 >>
    /\ call.res = NotificationNone
    /\ is_recording /\ audio_buffer # << >>

\* a line that misuses the protocol: no known prefix, a VOCAB: value that is no
\* JSON, an INPUT_SOURCE: value that is neither system nor ble
C23_Misuse(cmd) ==
    \/ cmd.prefix \notin { "ENTER:", "INPUT_SOURCE:", "VOCAB:" }
    \/ cmd.prefix = "VOCAB:" /\ cmd.value.json = "malformed"
    \/ cmd.prefix = "INPUT_SOURCE:"
          /\ to_lowercase(trim(cmd.value.text)) \notin
                { << "s", "y", "s", "t", "e", "m" >>, << "b", "l", "e" >> }

\* C23: a stdin line that misuses the protocol leaves vocabulary, press_enter
\* and input_source as they are, and with them the recording and the
\* transcriptions in progress.
C23_MisuseIgnored ==
    [][ (call'.fn = "stdin" /\ (call.fn = "stdin" => call'.arg # call.arg)
           /\ C23_Misuse(call'.arg)) =>
          UNCHANGED << vocabulary, press_enter_after_paste, input_source, rx, recVars,
                       jobVars >> ]_vars

\* C23 witness: a VOCAB: line that is no JSON was read while a session was
\* recording and a job held the recognizer, and the vocabulary set before is
\* still there
C23_Witness ==
    /\ call.fn = "stdin" /\ call.arg.prefix = "VOCAB:" /\ call.arg.value.json = "malformed"
    /\ vocabulary.apps # << >>
    /\ is_recording
    /\ engine # 0

\* C24 (as claimed): an utterance recorded after a VOCAB: command and before
\* the next one is transcribed with a prompt that names the apps and the
\* commands of that command, and never the apps of one command with the
\* commands of another.
C24_PromptOfTheVocabInForce ==
    \A j \in JobIds :
        (jobs[j].pc \in { "prompted", "final", "inject" }
           /\ jobs[j].vocab_at_stop # EmptyVocabulary) =>
            /\ jobs[j].prompt # None
            /\ jobs[j].vocab_at_stop.apps # << >> =>
                  jobs[j].prompt[1].apps = jobs[j].vocab_at_stop.apps
            /\ jobs[j].vocab_at_stop.commands # << >> =>
                  jobs[j].prompt[1].commands = jobs[j].vocab_at_stop.commands
            /\ \E v \in VocabInputs :
                  jobs[j].prompt[1].apps = v.apps /\ jobs[j].prompt[1].commands = v.commands

\* C25: the performance history never holds more than ten samples: after n
\* samples were recorded it holds the last min(n, 10) of them in the order in
\* which they were recorded.
C25_PerfHistoryRing ==
    call.fn = "perf" =>
        LET n == Len(call.arg)
            kept == Min(n, 10)
        IN  /\ Len(perf_history) = kept
            /\ perf_history = SubSeq(call.arg, n - kept + 1, n)

\* C25 witness: twelve samples were recorded and the two oldest are gone
C25_Witness ==
    /\ call.fn = "perf" /\ Len(call.arg) = 12
    /\ Len(perf_history) = 10
    /\ call.arg[1] # call.arg[3] /\ perf_history[1] = call.arg[3]

\* C26 (as claimed): is_active() is true exactly when the last event of the
\* trigger key was a press, once the caller has consumed every event, by
\* whichever method.
C26_IsActiveFollowsKey ==
    (hotkey_trigger.pc = "idle" /\ hotkey_trigger.event_rx = << >>) =>
        (hotkey_trigger.is_active <=> hotkey_trigger.key = "press")

\* ------------------------------------------------ ToggleLock, lock direction
\* C27 (as claimed): processing ToggleLock with no recording and no lock
\* clears the buffer, opens a new capture stream and leaves is_recording and
\* is_locked true; processing it while recording unlocked sets is_locked and
\* leaves the recording flag, the stream and the captured samples as they were.
C27_ToggleLockLocks ==
    [][ Handles("ToggleLock") =>
          /\ (~is_recording /\ ~is_locked =>
                /\ audio_buffer' = << >>
                /\ recording_stream' # 0 /\ recording_stream' # recording_stream
                /\ is_recording' /\ is_locked')
          /\ (is_recording /\ ~is_locked =>
                /\ is_locked' /\ is_recording'
                /\ recording_stream' = recording_stream
                /\ audio_buffer' = audio_buffer /\ captured' = captured) ]_vars

\* ------------------------------------------------------- the lock chord
\* the keyboard with both Control keys and the orchestrator that drains rx
NextChord ==
    \/ KeyPressTrigger \/ KeyReleaseTrigger
    \/ KeyPressControl \/ KeyReleaseControl
    \/ KeyPressControlRight \/ KeyReleaseControlRight
    \/ HandleStartRecording \/ HandleStopRecording \/ HandleToggleLock

SpecChord == Init /\ [][NextChord]_vars

\* the trigger key and the Control key k are both down
ChordWith(k) == "Trigger" \in keys_held /\ k \in keys_held

\* this step is a tx_keyboard.send(ToggleLock)
SendsToggleLock ==
    Len(rx') = Len(rx) + 1 /\ rx'[Len(rx')] = "ToggleLock"

\* C28 (as claimed): the step that completes a chord sends one ToggleLock,
\* and while the trigger key and a Control key stay down, from the moment
\* both are held until one of the two is released, no step sends another.
C28_OneToggleLockPerChord ==
    [][ /\ ( /\ \A k \in ControlKeys : ~ChordWith(k)
             /\ \E k \in ControlKeys : ChordWith(k)' ) => SendsToggleLock
        /\ \A k \in ControlKeys :
             ChordWith(k) /\ ChordWith(k)' => ~SendsToggleLock ]_vars

\* ------------------------------------- sessions while the recognizer is held
\* the transcription threads a run can spawn: each takes at least one sample
MaxJobs == MaxSamples

\* system mode: the trigger key, the capture, the event loop and the threads
NextBusy ==
    \/ KeyPressTrigger \/ KeyReleaseTrigger \/ CaptureCallback
    \/ HandleStartRecording \/ HandleStopRecording
    \/ JobStep

\* the scheduler lets every transcription thread that can run make its step
SpecBusy ==
    Init /\ [][NextBusy]_vars /\ \A j \in 1..MaxJobs : WF_vars(JobRun(j))

\* the place of a transcription thread, counted from its spawn
PcRank(pc) ==
    CASE pc = "spawned" -> 0 [] pc = "locked" -> 1 [] pc = "prompted" -> 2
      [] pc = "final" -> 3 [] pc = "inject" -> 4 [] pc = "done" -> 5

\* the FINAL: lines of job j
FinalsOf(j) == { i \in 1..Len(out) : out[i].line = "FINAL" /\ out[i].job = j }

\* a session is closed with samples while a job holds the recognizer: the
\* orchestrator does not wait, the new job is spawned with the samples of the
\* session, and the job that holds the recognizer is left alone
C29_SpawnsWhileHeld ==
    [][ engine # 0 /\ ClosesSession /\ audio_buffer # << >> =>
          /\ jobs' = Append(jobs, jobs'[Len(jobs')])
          /\ jobs'[Len(jobs')].samples = audio_buffer
          /\ jobs'[Len(jobs')].pc = "spawned"
          /\ engine' = engine /\ ~is_recording' ]_vars

\* a session is opened while a job holds the recognizer
C29_RecordsWhileHeld ==
    [][ engine # 0 /\ ~is_recording /\ is_recording' =>
          engine' = engine /\ jobs' = jobs ]_vars

\* a job takes the recognizer only when it is free, transcribes only while it
\* holds it, never goes back or skips the recognizer, keeps its samples, and
\* prints at most one FINAL: line
C29_OncePerJob ==
    /\ [][ \A j \in JobIds :
             /\ jobs'[j].samples = jobs[j].samples
             /\ PcRank(jobs'[j].pc) >= PcRank(jobs[j].pc)
             /\ jobs[j].pc = "spawned" /\ jobs'[j].pc # "spawned" =>
                    engine = 0 /\ engine' = j /\ jobs'[j].pc = "locked"
             /\ jobs[j].pc = "prompted" /\ jobs'[j].pc # "prompted" => engine = j
        ]_vars
    /\ [](\A j \in JobIds : Cardinality(FinalsOf(j)) <= 1)
    /\ [](\A j \in JobIds : jobs[j].pc \in { "locked", "prompted" } => engine = j)

\* every job that was spawned runs to its end
C29_NoJobLost ==
    \A j \in 1..MaxJobs : (Len(jobs) >= j) ~> (Len(jobs) >= j /\ jobs[j].pc = "done")

\* C29: while a transcription job holds the recognizer the orchestrator still
\* opens and closes sessions and spawns the job of the second session; the
\* second job takes the recognizer only once it is free, and every job runs
\* to its end exactly once.
C29_SessionsWhileTranscribing ==
    /\ C29_RecordsWhileHeld
    /\ C29_SpawnsWhileHeld
    /\ C29_OncePerJob
    /\ C29_NoJobLost

\* C29 witness: the first job holds the recognizer and has not transcribed yet,
\* the job of a second session is spawned behind it and waits
C29_Witness ==
    /\ Len(jobs) = 2 /\ engine = 1
    /\ jobs[1].pc = "prompted" /\ jobs[2].pc = "spawned"
    /\ ~is_recording /\ rx = << >>

\* ------------------------------------------- phrases of a transcript (C30)
\* the phrases of text from character i on, in order: the characters up to
\* the next terminator, with that terminator, or with none for the rest
RECURSIVE C30_Phrases(_, _, _)
C30_Phrases(text, i, body) ==
    IF i > Len(text) THEN << [body |-> body, term |-> << >>] >>
    ELSE IF text[i] \in { ".", "!", "?" }
         THEN << [body |-> body, term |-> << text[i] >>] >>
                \o C30_Phrases(text, i + 1, << >>)
         ELSE C30_Phrases(text, i + 1, Append(body, text[i]))

\* the whitespace-separated words of a phrase
C30_WordsIn(body) ==
    Cardinality({ i \in 1..Len(body) :
                    body[i] # " " /\ (i = Len(body) \/ body[i + 1] = " ") })

\* a phrase without the whitespace around it, with its terminator when it has
\* four words or more
C30_Piece(phrase) ==
    trim(phrase.body) \o (IF C30_WordsIn(phrase.body) >= 4 THEN phrase.term ELSE << >>)

\* the pieces of the non-empty phrases, with one space between two of them
RECURSIVE C30_Joined(_)
C30_Joined(phrases) ==
    IF phrases = << >> THEN << >>
    ELSE IF trim(Head(phrases).body) = << >> THEN C30_Joined(Tail(phrases))
    ELSE LET rest == C30_Joined(Tail(phrases))
         IN  C30_Piece(Head(phrases)) \o (IF rest = << >> THEN << >> ELSE << " " >> \o rest)

\* the words of a text in order: the runs of characters that are neither
\* whitespace nor a terminator
RECURSIVE C30_Words(_, _, _)
C30_Words(text, i, word) ==
    IF i > Len(text) THEN (IF word = << >> THEN << >> ELSE << word >>)
    ELSE IF text[i] \in { " ", ".", "!", "?" }
         THEN (IF word = << >> THEN << >> ELSE << word >>) \o C30_Words(text, i + 1, << >>)
         ELSE C30_Words(text, i + 1, Append(word, text[i]))

\* C30: strip_periods_from_short_phrases splits on '.', '!' and '?'; a phrase
\* of fewer than four words loses its terminator and one of four or more
\* keeps it; the non-empty phrases are joined by exactly one space, the result
\* neither begins nor ends with whitespace, and the words and their order are
\* those of the input.
C30_StripByPhrase ==
    call.fn = "strip" /\ call.returned =>
        /\ call.res = C30_Joined(C30_Phrases(call.arg, 1, << >>))
        /\ call.res # << >> => call.res[1] # " " /\ call.res[Len(call.res)] # " "
        /\ C30_Words(call.res, 1, << >>) = C30_Words(call.arg, 1, << >>)

\* C30 witness: a phrase of four words kept its question mark, the phrase of
\* one word after it lost its period, and one space joins the two
C30_Witness ==
    /\ call.fn = "strip" /\ call.returned
    /\ call.arg = << "a", " ", "a", " ", "a", " ", "a", "?", "a", "." >>
    /\ call.res = << "a", " ", "a", " ", "a", " ", "a", "?", " ", "a" >>

\* ------------------------------------------------------- build_prompt (C31)
\* the prompt of one call
NextPrompt == CallBuildPrompt

SpecPrompt == InitPrompt /\ [][NextPrompt]_vars

\* the names of a list with ", " between them
RECURSIVE C31_Listed(_)
C31_Listed(names) ==
    IF Len(names) = 1 THEN << names[1] >>
    ELSE << names[1], ", " >> \o C31_Listed(Tail(names))

\* the sentences the prompt is made of, each empty when it is absent
C31_Usable(a) == a.app_name \notin { "", "Unknown" }

C31_ContextSentence(a) ==
    IF ~C31_Usable(a) THEN << >>
    ELSE << "You are transcribing for ", a.app_name >>
           \o (IF a.window_title = "" THEN << >>
               ELSE << ". The current window is: ", a.window_title >>)
           \o << "." >>

C31_AppsSentence(a) ==
    IF a.vocab.apps = << >> THEN << >>
    ELSE << "Voice commands: open " >> \o C31_Listed(a.vocab.apps) \o << "." >>

C31_CommandsSentence(a) ==
    IF a.vocab.commands = << >> THEN << >>
    ELSE << "Commands: " >> \o C31_Listed(a.vocab.commands) \o << "." >>

\* the sentences that are present, in order, with one space between two
C31_Spaced(sentences) ==
    LET present == SelectSeq(sentences, LAMBDA s : s # << >>)
    IN  [i \in 1..Len(present) |->
            IF i = 1 THEN present[i] ELSE << " " >> \o present[i]]

C31_Expected(a) ==
    LET spaced == C31_Spaced(<< C31_ContextSentence(a), C31_AppsSentence(a),
                                C31_CommandsSentence(a) >>)
    IN  IF Len(spaced) = 0 THEN << >>
        ELSE IF Len(spaced) = 1 THEN spaced[1]
        ELSE IF Len(spaced) = 2 THEN spaced[1] \o spaced[2]
        ELSE spaced[1] \o spaced[2] \o spaced[3]

\* C31: build_prompt returns None exactly when the application name is ""
\* or "Unknown" and both lists of the vocabulary are empty; otherwise it
\* returns the context sentence, the apps sentence and the commands sentence
\* that are present, in this order and joined by single spaces; the window
\* title appears only after a usable application name.
C31_BuildPrompt ==
    call.fn = "build_prompt" /\ call.returned =>
        LET a == call.arg
        IN  /\ call.res = None <=>
                  ~C31_Usable(a) /\ a.vocab.apps = << >> /\ a.vocab.commands = << >>
            /\ call.res # None => call.res = Some(C31_Expected(a))
            /\ ~C31_Usable(a) /\ call.res # None =>
                  \A i \in 1..Len(call.res[1]) : call.res[1][i] # a.window_title

\* C31 witness: a usable application with a window title and both lists
\* gave the three sentences
C31_Witness ==
    /\ call.fn = "build_prompt" /\ call.returned
    /\ call.arg.app_name = "Slack" /\ call.arg.window_title = "general"
    /\ call.arg.vocab = [apps |-> << "Slack", "Mail" >>, commands |-> << "send" >>]
    /\ call.res = Some(<< "You are transcribing for ", "Slack",
                          ". The current window is: ", "general", ".", " ",
                          "Voice commands: open ", "Slack", ", ", "Mail", ".", " ",
                          "Commands: ", "send", "." >>)

\* ------------------------------------------------ the audio lines (C32)
\* sessions closed by the release of the trigger, by SpeechEnd and by the
\* lock chord, on devices of both sample rates, with the encode threads
NextEncode ==
    \/ PlainSession
    \/ KeyPressControl \/ KeyReleaseControl \/ HandleToggleLock
    \/ EncodeThreads

InitEncode == InitWith(SampleRates) /\ call = NoCall

SpecEncode ==
    InitEncode /\ [][NextEncode]_vars /\ \A j \in 1..MaxSamples : WF_vars(EncodeStep(j))

\* the AUDIO_ lines printed for utterance j, in the order of stdout
C32_AudioLinesOf(j) ==
    LET lines == SelectSeq(out, LAMBDA l : l.job = j /\ l.line \notin { "FINAL", "INJECT" })
    IN  [i \in 1..Len(lines) |-> lines[i].line]

\* the PCM of the utterances of this run is at 16 kHz
C32_PcmAt16k == env_input_source = "ble" \/ sample_rate = 16000

\* C32 (as claimed): every non-empty utterance at 16 kHz, whichever event
\* ended it, gets its AUDIO_DATA:, AUDIO_DURATION: and AUDIO_WAV: lines, in
\* that order.
C32_AudioLinesPerUtterance ==
    \A j \in 1..MaxSamples :
        (Len(jobs) >= j /\ C32_PcmAt16k) ~> (C32_AudioLinesOf(j) = AudioLines)

\* ------------------------------------------------ connect results (C33)
\* the receiver of either mode through its connections and reconnections
NextReceiver == ReceiverConnect \/ ReceiverConnectTriggerOnly \/ ReceiverDisconnect

SpecReceiver == Init /\ [][NextReceiver]_vars

\* in the attempt only the Control TX characteristic is missing
C33_OnlyControlTxMissing(a) ==
    /\ a.found /\ a.connected /\ a.discovered /\ a.service
    /\ a.audio_data /\ a.subscribe_audio_data
    /\ ~a.control_tx

\* C33 (as claimed): connect returns Ok only if the Audio Data characteristic
\* was found and subscribed, and returns Ok when only Control TX is missing;
\* connect_trigger_only returns Ok only if Control TX was found and
\* subscribed and never subscribes to Audio Data; an error of either on a
\* receiver that was not connected leaves is_connected() false.
C33_ConnectResults ==
    /\ call.fn = "connect" =>
          /\ call.res.ok =>
                /\ call.arg.attempt.service /\ call.arg.attempt.audio_data
                /\ "audio_data" \in call.res.subscribed
          /\ C33_OnlyControlTxMissing(call.arg.attempt) => call.res.ok
    /\ call.fn = "connect_trigger_only" =>
          /\ call.res.ok =>
                /\ call.arg.attempt.service /\ call.arg.attempt.control_tx
                /\ "control_tx" \in call.res.subscribed
          /\ "audio_data" \notin call.res.subscribed
    /\ call.fn \in { "connect", "connect_trigger_only" } =>
          (~call.res.ok /\ ~call.arg.self.periph => ~call.res.self.periph)


\* ---------------------------------------------------------------- C34
\* a transcription thread that is past its set_prompt and has not ended: it is
\* in transcribe, at its FINAL: line or in inject_text
C34_TranscribingOrInjecting(j) == jobs[j].pc \in { "prompted", "final", "inject" }

\* C34: while a transcription thread is transcribing or injecting, the stdin
\* thread can take the vocabulary mutex, so a VOCAB: line (and with it the
\* ENTER: and INPUT_SOURCE: lines queued behind it) is applied at once.
C34_VocabAppliedWithoutWaiting ==
    (\E j \in JobIds : C34_TranscribingOrInjecting(j)) => ENABLED StdinVocab


\* ---------------------------------------------------------------- C35
\* C35: in system mode, in every state the orchestrator leaves behind after an
\* event, the lock flag is set only while the recording flag is set.
C35_LockedOnlyWhileRecording == SystemMode => (is_locked => is_recording)

\* ---------------------------------------------------------------- C36
\* the orchestrator, idle and unlocked, handles the event that starts a session
C36_StartsSession ==
    /\ ~is_recording /\ ~is_locked
    /\ Handles("StartRecording") \/ Handles("ToggleLock")

\* C36: when the orchestrator, idle and unlocked, handles StartRecording or
\* ToggleLock and no capture stream is stored (the build failed or the sample
\* format is not supported), it is left with is_recording and is_locked false.
C36_IdleAfterFailedOpen ==
    [][ C36_StartsSession /\ recording_stream' = 0 =>
            ~is_recording' /\ ~is_locked' ]_vars


\* ---------------------------------------------------------------- C37
\* system mode: the trigger key, the capture callback, the event loop, the
\* transcription threads and the stdin thread
NextThreads == NextBusy \/ StdinRead \/ StdinApply

\* the program in system mode; the BLE device plays no part
InitThreads == Init /\ env_input_source = "system" /\ ~device_up

\* the scheduler lets every thread that can run make its step; the calls of
\* transcribe and inject_text return
SpecThreads ==
    /\ InitThreads /\ [][NextThreads]_vars
    /\ \A j \in 1..MaxJobs : WF_vars(JobRun(j))
    /\ WF_vars(StdinApply)

\* the stdin thread has read a line and has not applied it
C37_LineRead == call.fn = "stdin" /\ ~call.returned

\* C37: no thread waits for a mutex for ever: again and again every
\* transcription thread that was spawned has ended, and again and again the
\* stdin thread has applied the line it read.
C37_NoDeadlock ==
    /\ []<>(\A j \in 1..Len(jobs) : jobs[j].pc = "done")
    /\ []<>(~C37_LineRead)

\* C37 witness: every mutex is in use: a VOCAB: line waits for the vocabulary
\* that the first thread holds with the engine, the second thread waits for the
\* engine, and a capture stream is open
C37_Witness ==
    /\ C37_LineRead /\ call.arg.prefix = "VOCAB:"
    /\ Len(jobs) = 2
    /\ vocab_lock = 1 /\ engine = 1 /\ jobs[2].pc = "spawned"
    /\ recording_stream # 0 /\ is_recording


\* system mode with callbacks that deliver a second of audio each, so that
\* every utterance is long enough for the recognizer
NextUtterances ==
    \/ KeyPressTrigger \/ KeyReleaseTrigger \/ CaptureCallbackSecond
    \/ HandleStartRecording \/ HandleStopRecording
    \/ JobStep

SpecUtterances == InitThreads /\ [][NextUtterances]_vars

\* ---------------------------------------------------------------- C38
\* the thread is between engine.lock() and its end
C38_Running(j) == jobs[j].pc \in { "locked", "prompted", "final", "inject" }

\* the FINAL: lines and the injections, in the order they happened
C38_Lines == SelectSeq(out, LAMBDA l : l.line \in { "FINAL", "INJECT" })

\* the jobs of the lines of one kind, in the order of the lines
C38_JobsOf(kind) ==
    LET lines == SelectSeq(out, LAMBDA l : l.line = kind)
    IN  [k \in 1..Len(lines) |-> lines[k].job]

\* C38: the transcription threads run one at a time: at most one is between
\* engine.lock() and its end, an injection comes right after the FINAL: line of
\* its own job, a FINAL: line is followed by the injection of its job before
\* any line of another job, and the texts are injected in the order of their
\* FINAL: lines.
C38_OneJobAtATime ==
    /\ \A i, j \in JobIds : C38_Running(i) /\ C38_Running(j) => i = j
    /\ \A k \in 1..Len(C38_Lines) :
          /\ C38_Lines[k].line = "INJECT" =>
                /\ k > 1
                /\ C38_Lines[k - 1].line = "FINAL"
                /\ C38_Lines[k - 1].job = C38_Lines[k].job
          /\ C38_Lines[k].line = "FINAL" /\ k < Len(C38_Lines) =>
                /\ C38_Lines[k + 1].line = "INJECT"
                /\ C38_Lines[k + 1].job = C38_Lines[k].job
    /\ IsPrefix(C38_JobsOf("INJECT"), C38_JobsOf("FINAL"))

\* C38 witness: two utterances have had their FINAL: line and their injection
C38_Witness ==
    /\ Len(C38_JobsOf("INJECT")) = 2
    /\ C38_JobsOf("INJECT")[1] # C38_JobsOf("INJECT")[2]


\* ---------------------------------------------------------------- C39
\* the starts of the program, one after the other, on one cache directory
NextModel == EnsureModel

SpecModel == Init /\ [][NextModel]_vars

\* C39: after ensure_model has returned, a failed download has left no file
\* at the destination, and the path that ensure_model returns with Ok is the
\* path of the whole model file.
C39_NoTruncatedModel ==
    call.fn = "ensure_model" =>
        /\ ~call.res.ok => model_file = None
        /\ call.res.ok => model_file = Some(ModelChunks)

====
